---- MODULE Spec2Model ----
(***************************************************************************)
(* A model of rruled: the conversion of a natural-language schedule phrase *)
(* into RFC-5545 RRULE strings (parsers.ts, matchers.ts, rrule-builder.ts  *)
(* and the orchestrator index.ts).                                         *)
(*                                                                         *)
(* Texts are TLA+ strings (TLC evaluates Len, SubSeq and \o on them), so   *)
(* the parsers are modelled on the characters they read.  Each regular     *)
(* expression of the source is written as a syntax tree and run by a       *)
(* backtracking matcher (M) that returns the possible matches in the       *)
(* priority order of the JavaScript engine: the first one is the match.    *)
(***************************************************************************)
EXTENDS Integers, Sequences, FiniteSets, TLC

VARIABLES
    input,          \* the string handed to the function under study
    pc,             \* position in the pipeline
    normalizedText, \* rruled: normalizeInput(input)
    matches,        \* rruled: the MatchResult
    dtstart,        \* rruled: parseStartDate(normalizedText), "" when null
    result,         \* what the function returned
    written         \* how the input was put together: [family, tokens, n]

vars == <<input, pc, normalizedText, matches, dtstart, result, written>>

(***************************************************************************)
(* Characters and strings                                                  *)
(***************************************************************************)
\* s.substring(i - 1, j), the characters i..j (1-based), "" when there are none
Sub(s, i, j) == IF i > j THEN "" ELSE SubSeq(s, i, j)
Ch(s, i) == SubSeq(s, i, i)

DigitChars == {"0", "1", "2", "3", "4", "5", "6", "7", "8", "9"}
LowerLetters == "abcdefghijklmnopqrstuvwxyz"
UpperLetters == "ABCDEFGHIJKLMNOPQRSTUVWXYZ"
LowerChars == {Ch(LowerLetters, i) : i \in 1..Len(LowerLetters)}
UpperChars == {Ch(UpperLetters, i) : i \in 1..Len(UpperLetters)}
\* \s of the regular expressions and the white space of String.prototype.trim
SpaceChars == {" ", "\t", "\n", "\r", "\f"}
\* \w, which decides \b
WordChars == LowerChars \cup UpperChars \cup DigitChars \cup {"_"}

\* an optional value: <<>> is null, <<v>> is v
Null == <<>>
Some(v) == <<v>>
IsNull(o) == o = <<>>
Val(o) == o[1]

RECURSIVE parseInt(_)
\* parseInt(digits, 10) of a string of decimal digits, with an optional sign
parseInt(d) ==
    IF d = "" THEN 0
    ELSE IF Ch(d, 1) = "-" THEN 0 - parseInt(Sub(d, 2, Len(d)))
    ELSE LET last == Ch(d, Len(d))
             v == CHOOSE n \in 0..9 : ToString(n) = last
         IN  10 * parseInt(Sub(d, 1, Len(d) - 1)) + v

RECURSIVE toLowerCase(_)
\* String.prototype.toLowerCase, character by character (one half of the string
\* after the other)
toLowerCase(s) ==
    IF Len(s) = 0 THEN ""
    ELSE IF Len(s) = 1
    THEN IF s \in UpperChars
         THEN Ch(LowerLetters, CHOOSE i \in 1..Len(UpperLetters) : Ch(UpperLetters, i) = s)
         ELSE s
    ELSE toLowerCase(Sub(s, 1, Len(s) \div 2)) \o toLowerCase(Sub(s, Len(s) \div 2 + 1, Len(s)))

RECURSIVE trimStart(_)
trimStart(s) ==
    IF s # "" /\ Ch(s, 1) \in SpaceChars THEN trimStart(Sub(s, 2, Len(s))) ELSE s

RECURSIVE trimEnd(_)
trimEnd(s) ==
    IF s # "" /\ Ch(s, Len(s)) \in SpaceChars THEN trimEnd(Sub(s, 1, Len(s) - 1)) ELSE s

trim(s) == trimEnd(trimStart(s))

(***************************************************************************)
(* Regular expressions.  A match state is the position of the next         *)
(* character and the text of the capturing groups ("" for a group that did *)
(* not take part: no group of the source can match the empty string).      *)
(***************************************************************************)
Lit(w) == [k |-> "lit", s |-> w]
Cls(cs) == [k |-> "cls", cs |-> cs, neg |-> FALSE]
NotCls(cs) == [k |-> "cls", cs |-> cs, neg |-> TRUE]
Cat(rs) == [k |-> "cat", rs |-> rs]
Alt(rs) == [k |-> "alt", rs |-> rs]
\* r{lo,hi}, greedy; hi = -1 is no upper limit
Rep(r, lo, hi) == [k |-> "rep", r |-> r, lo |-> lo, hi |-> hi, lazy |-> FALSE]
Opt(r) == Rep(r, 0, 1)
Star(r) == Rep(r, 0, -1)
Plus(r) == Rep(r, 1, -1)
LazyStar(r) == [k |-> "rep", r |-> r, lo |-> 0, hi |-> -1, lazy |-> TRUE]
Grp(n, r) == [k |-> "grp", n |-> n, r |-> r]
Bol == [k |-> "bol"]
Eol == [k |-> "eol"]
Wb == [k |-> "wb"]
Digit == Cls(DigitChars)
Space == Cls(SpaceChars)
\* a literal word list (a|b|c)
Words(ws) == Alt([i \in 1..Len(ws) |-> Lit(ws[i])])

NoCaps == [i \in 1..6 |-> ""]

IsWordAt(s, i) == i >= 1 /\ i <= Len(s) /\ Ch(s, i) \in WordChars

InCls(cls, s, i) == (Ch(s, i) \in cls.cs) # cls.neg

\* the number of characters of the class that stand at pos and after it
Run(cls, s, pos) ==
    IF \E j \in pos..Len(s) : ~InCls(cls, s, j)
    THEN (CHOOSE j \in pos..Len(s) :
            ~InCls(cls, s, j) /\ \A k \in pos..(j - 1) : InCls(cls, s, k)) - pos
    ELSE Len(s) - pos + 1

\* the matches of a repetition of a character class: it takes lo..hi characters
\* of the run at st.pos, the most first when greedy, the fewest first when lazy
MRun(re, s, st) ==
    LET n == Run(re.r, s, st.pos)
        top == IF re.hi < 0 \/ n < re.hi THEN n ELSE re.hi
        low == IF re.lo < 0 THEN 0 ELSE re.lo
    IN  [j \in 1..(top - low + 1) |->
            [st EXCEPT !.pos = IF re.lazy THEN @ + low + j - 1 ELSE @ + top - j + 1]]

RECURSIVE M(_, _, _), MAll(_, _, _), MCat(_, _, _, _, _), MAlt(_, _, _, _, _)

\* the matches of re from each of the states sts, in priority order
MAll(re, s, sts) ==
    IF sts = <<>> THEN <<>>
    ELSE IF Len(sts) = 1 THEN M(re, s, sts[1])
    ELSE MAll(re, s, SubSeq(sts, 1, Len(sts) \div 2))
         \o MAll(re, s, SubSeq(sts, Len(sts) \div 2 + 1, Len(sts)))

\* the matches of the elements from..to of a sequence, one after the other
MCat(rs, from, to, s, sts) ==
    IF from > to \/ sts = <<>> THEN sts
    ELSE IF from = to THEN MAll(rs[from], s, sts)
    ELSE MCat(rs, (from + to) \div 2 + 1, to, s, MCat(rs, from, (from + to) \div 2, s, sts))

\* the matches of the alternatives from..to, those of the earlier ones first
MAlt(rs, from, to, s, st) ==
    IF from > to THEN <<>>
    ELSE IF from = to THEN M(rs[from], s, st)
    ELSE MAlt(rs, from, (from + to) \div 2, s, st) \o MAlt(rs, (from + to) \div 2 + 1, to, s, st)

\* the matches of re at state st: a sequence of states, the engine's choice first
M(re, s, st) ==
    CASE re.k = "lit" ->
            IF st.pos + Len(re.s) - 1 <= Len(s)
                /\ Sub(s, st.pos, st.pos + Len(re.s) - 1) = re.s
            THEN <<[st EXCEPT !.pos = @ + Len(re.s)]>> ELSE <<>>
      [] re.k = "cls" ->
            IF st.pos <= Len(s) /\ InCls(re, s, st.pos)
            THEN <<[st EXCEPT !.pos = @ + 1]>> ELSE <<>>
      [] re.k = "cat" -> MCat(re.rs, 1, Len(re.rs), s, <<st>>)
      [] re.k = "alt" -> MAlt(re.rs, 1, Len(re.rs), s, st)
      [] re.k = "rep" /\ re.r.k = "cls" -> MRun(re, s, st)
      [] re.k = "rep" /\ re.r.k # "cls" ->
            LET more == IF re.hi = 0 THEN <<>>
                        ELSE MAll([re EXCEPT !.lo = @ - 1, !.hi = @ - 1], s, M(re.r, s, st))
                stop == IF re.lo <= 0 THEN <<st>> ELSE <<>>
            IN  IF re.lazy THEN stop \o more ELSE more \o stop
      [] re.k = "grp" ->
            LET inner == M(re.r, s, st)
            IN  [j \in 1..Len(inner) |->
                    [inner[j] EXCEPT !.caps[re.n] = Sub(s, st.pos, inner[j].pos - 1)]]
      [] re.k = "bol" -> IF st.pos = 1 THEN <<st>> ELSE <<>>
      [] re.k = "eol" -> IF st.pos = Len(s) + 1 THEN <<st>> ELSE <<>>
      [] re.k = "wb" -> IF IsWordAt(s, st.pos - 1) # IsWordAt(s, st.pos) THEN <<st>> ELSE <<>>

NoMatch == [found |-> FALSE, start |-> 0, end |-> 0, text |-> "", caps |-> NoCaps]

RECURSIVE Lead(_, _)
\* the literal every match of the elements i.. of a sequence begins with, "" when
\* there is no such literal: a match can only start where it stands
Lead(rs, i) ==
    IF i > Len(rs) THEN ""
    ELSE IF rs[i].k \in {"wb", "bol"} THEN Lead(rs, i + 1)
    ELSE IF rs[i].k = "lit" THEN rs[i].s
    ELSE IF rs[i].k = "cat" THEN Lead(rs[i].rs, 1)
    ELSE IF rs[i].k = "grp" THEN Lead(<<rs[i].r>>, 1)
    ELSE ""

\* the match that starts at position from, if there is one
ExecAt(re, lead, s, from) ==
    IF lead # "" /\ (from + Len(lead) - 1 > Len(s) \/ Sub(s, from, from + Len(lead) - 1) # lead)
    THEN NoMatch
    ELSE LET r == M(re, s, [pos |-> from, caps |-> NoCaps])
         IN  IF r # <<>>
             THEN [found |-> TRUE, start |-> from, end |-> r[1].pos,
                   text |-> Sub(s, from, r[1].pos - 1), caps |-> r[1].caps]
             ELSE NoMatch

RECURSIVE ExecFrom(_, _, _, _, _)
\* the leftmost match that starts at one of the positions from..to: the one of
\* the left half of the positions, and of the right half when that has none
ExecFrom(re, lead, s, from, to) ==
    IF from > to THEN NoMatch
    ELSE IF from = to THEN ExecAt(re, lead, s, from)
    ELSE LET left == ExecFrom(re, lead, s, from, (from + to) \div 2)
         IN  IF left.found THEN left
             ELSE ExecFrom(re, lead, s, (from + to) \div 2 + 1, to)

\* RegExp.prototype.exec from position from: the leftmost match, [start, end)
Exec(re, s, from) == ExecFrom(re, Lead(<<re>>, 1), s, from, Len(s) + 1)

\* String.prototype.match without the g flag, and RegExp.prototype.test
Match(s, re) == Exec(re, s, 1)
Test(re, s) == Exec(re, s, 1).found

RECURSIVE MatchAllFrom(_, _, _)
\* String.prototype.matchAll with the g flag: the next search starts where the
\* last match ended (one further after an empty match)
MatchAllFrom(re, s, from) ==
    LET m == Exec(re, s, from)
    IN  IF ~m.found THEN <<>>
        ELSE <<m>> \o MatchAllFrom(re, s, IF m.end = m.start THEN m.end + 1 ELSE m.end)

MatchAll(s, re) == MatchAllFrom(re, s, 1)

RECURSIVE ReplaceAllFrom(_, _, _, _)
\* String.prototype.replace with a g-flag pattern and a constant replacement
\* (the patterns it is used with match at least one character)
ReplaceAllFrom(s, re, by, from) ==
    LET m == Exec(re, s, from)
    IN  IF ~m.found THEN Sub(s, from, Len(s))
        ELSE Sub(s, from, m.start - 1) \o by \o ReplaceAllFrom(s, re, by, m.end)

ReplaceAll(s, re, by) == ReplaceAllFrom(s, re, by, 1)

\* String.prototype.replace with a pattern without the g flag
ReplaceFirst(s, re, by) ==
    LET m == Exec(re, s, 1)
    IN  IF ~m.found THEN s
        ELSE Sub(s, 1, m.start - 1) \o by \o Sub(s, m.end, Len(s))

(***************************************************************************)
(* parsers.ts                                                              *)
(***************************************************************************)
RE_whitespace == Plus(Space)
RE_separators == Plus(Cls({",", ";"}))

\* a normalizeInput without the trim: the white space at the ends is kept as one space
normalizeInput_noTrim(s) ==
    ReplaceAll(ReplaceAll(toLowerCase(s), RE_whitespace, " "), RE_separators, ",")

normalizeInput(s) ==
    ReplaceAll(ReplaceAll(trim(toLowerCase(s)), RE_whitespace, " "), RE_separators, ",")

AmPm == Words(<<"am", "pm">>)

\* /(\d{1,2})(?::(\d{2}))?\s*(am|pm)/
RE_amPm ==
    Cat(<<Grp(1, Rep(Digit, 1, 2)), Opt(Cat(<<Lit(":"), Grp(2, Rep(Digit, 2, 2))>>)),
          Star(Space), Grp(3, AmPm)>>)

\* /(-?\d{1,2}):(\d{2})/
RE_time24 ==
    Cat(<<Grp(1, Cat(<<Opt(Lit("-")), Rep(Digit, 1, 2)>>)), Lit(":"), Grp(2, Rep(Digit, 2, 2))>>)

Time(h, m) == [hour24 |-> h, minute |-> m]

\* parseTime: Null, or Some of a ParsedTime
parseTime(timeStr) ==
    LET normalized == trim(toLowerCase(timeStr))
        amPmMatch == Match(normalized, RE_amPm)
        time24Match == Match(normalized, RE_time24)
    IN  IF normalized = "midnight" THEN Some(Time(0, 0))
        ELSE IF normalized = "noon" THEN Some(Time(12, 0))
        ELSE IF amPmMatch.found
        THEN LET hour == parseInt(amPmMatch.caps[1])
                 minute == IF amPmMatch.caps[2] # "" THEN parseInt(amPmMatch.caps[2]) ELSE 0
                 period == amPmMatch.caps[3]
             IN  IF hour < 1 \/ hour > 12 THEN Null
                 ELSE IF minute < 0 \/ minute > 59 THEN Null
                 ELSE IF period = "pm" /\ hour # 12 THEN Some(Time(hour + 12, minute))
                 ELSE IF period = "am" /\ hour = 12 THEN Some(Time(0, minute))
                 ELSE Some(Time(hour, minute))
        ELSE IF time24Match.found
        THEN LET hour24 == parseInt(time24Match.caps[1])
                 minute == parseInt(time24Match.caps[2])
             IN  IF hour24 < 0 \/ hour24 > 23 THEN Null
                 ELSE IF minute < 0 \/ minute > 59 THEN Null
                 ELSE Some(Time(hour24, minute))
        ELSE Null

\* /(noon|midnight|-?\d{1,2}(?::\d{2})?\s*(?:am|pm)|-?\d{1,2}:\d{2})/gi
RE_timePattern ==
    Alt(<<Lit("noon"), Lit("midnight"),
          Cat(<<Opt(Lit("-")), Rep(Digit, 1, 2), Opt(Cat(<<Lit(":"), Rep(Digit, 2, 2)>>)),
                Star(Space), AmPm>>),
          Cat(<<Opt(Lit("-")), Rep(Digit, 1, 2), Lit(":"), Rep(Digit, 2, 2)>>)>>)

RECURSIVE parsedOf(_, _)
\* the loop of extractTimes over the matches: the tokens parseTime rejects are dropped
parsedOf(ms, i) ==
    IF i > Len(ms) THEN <<>>
    ELSE parseTime(trim(ms[i].text)) \o parsedOf(ms, i + 1)

extractTimes(text) == parsedOf(MatchAll(text, RE_timePattern), 1)

Units == <<"minute", "hour", "day", "week", "month", "year">>

\* /every\s+(\d+)\s+(minute|hour|day|week|month|year)s?/
RE_intervalDigit ==
    Cat(<<Lit("every"), Plus(Space), Grp(1, Plus(Digit)), Plus(Space), Grp(2, Words(Units)),
          Opt(Lit("s"))>>)

SpelledNumbers ==
    <<"one", "two", "three", "four", "five", "six", "seven", "eight", "nine", "ten",
      "eleven", "twelve", "thirteen", "fourteen", "fifteen", "sixteen", "seventeen",
      "eighteen", "nineteen", "twenty", "other">>

\* numberMap: the words one..twenty are 1..20, and "other" is 2
parseSpelledNumber(text) ==
    LET normalized == trim(toLowerCase(text))
        i == CHOOSE j \in 1..Len(SpelledNumbers) : SpelledNumbers[j] = normalized
    IN  IF \A j \in 1..Len(SpelledNumbers) : SpelledNumbers[j] # normalized THEN Null
        ELSE IF normalized = "other" THEN Some(2) ELSE Some(i)

\* /every\s+(one|...|twenty|other)\s+(minute|hour|day|week|month|year)s?/
RE_intervalSpelled ==
    Cat(<<Lit("every"), Plus(Space), Grp(1, Words(SpelledNumbers)), Plus(Space),
          Grp(2, Words(Units)), Opt(Lit("s"))>>)

\* parseInterval: Null or Some([value, unit])
parseInterval(text) ==
    LET digitMatch == Match(text, RE_intervalDigit)
        spelledMatch == Match(text, RE_intervalSpelled)
    IN  IF digitMatch.found
        THEN Some([value |-> parseInt(digitMatch.caps[1]), unit |-> digitMatch.caps[2]])
        ELSE IF spelledMatch.found /\ ~IsNull(parseSpelledNumber(spelledMatch.caps[1]))
        THEN Some([value |-> Val(parseSpelledNumber(spelledMatch.caps[1])),
                   unit |-> spelledMatch.caps[2]])
        ELSE Null

\* /for\s+(\d+)\s+occurrences?/
RE_occurrences ==
    Cat(<<Lit("for"), Plus(Space), Grp(1, Plus(Digit)), Plus(Space), Lit("occurrence"),
          Opt(Lit("s"))>>)

\* parseCount: Null or Some(count)
parseCount(text) ==
    LET occurrenceMatch == Match(text, RE_occurrences)
    IN  IF occurrenceMatch.found THEN Some(parseInt(occurrenceMatch.caps[1])) ELSE Null

\* /for\s+(\d+)\s+(day|week|month|year)s?/
RE_duration ==
    Cat(<<Lit("for"), Plus(Space), Grp(1, Plus(Digit)), Plus(Space),
          Grp(2, Words(<<"day", "week", "month", "year">>)), Opt(Lit("s"))>>)

\* parseDuration: Null or Some([value, unit])
parseDuration(text) ==
    LET durationMatch == Match(text, RE_duration)
    IN  IF durationMatch.found
        THEN Some([value |-> parseInt(durationMatch.caps[1]), unit |-> durationMatch.caps[2]])
        ELSE Null

\* conversionTable: the multiplier of a frequency and a duration unit, as the
\* fraction <<numerator, denominator>> (1/7 is <<1, 7>>)
conversionTable(frequency, unit) ==
    CASE frequency = "DAILY" ->
            (CASE unit = "day" -> <<1, 1>> [] unit = "week" -> <<7, 1>>
               [] unit = "month" -> <<30, 1>> [] unit = "year" -> <<365, 1>>)
      [] frequency = "WEEKLY" ->
            (CASE unit = "day" -> <<1, 7>> [] unit = "week" -> <<1, 1>>
               [] unit = "month" -> <<4, 1>> [] unit = "year" -> <<52, 1>>)
      [] frequency = "MONTHLY" ->
            (CASE unit = "day" -> <<1, 30>> [] unit = "week" -> <<1, 4>>
               [] unit = "month" -> <<1, 1>> [] unit = "year" -> <<12, 1>>)
      [] frequency = "YEARLY" ->
            (CASE unit = "day" -> <<1, 365>> [] unit = "week" -> <<1, 52>>
               [] unit = "month" -> <<1, 12>> [] unit = "year" -> <<1, 1>>)
      [] frequency = "HOURLY" ->
            (CASE unit = "day" -> <<24, 1>> [] unit = "week" -> <<168, 1>>
               [] unit = "month" -> <<720, 1>> [] unit = "year" -> <<8760, 1>>)
      [] frequency = "MINUTELY" ->
            (CASE unit = "day" -> <<1440, 1>> [] unit = "week" -> <<10080, 1>>
               [] unit = "month" -> <<43200, 1>> [] unit = "year" -> <<525600, 1>>)

Frequencies == {"DAILY", "WEEKLY", "MONTHLY", "YEARLY", "HOURLY", "MINUTELY"}

\* a durationToCount that leaves the interval out of the division
durationToCount_noInterval(duration, frequency, interval, weekdayCount) ==
    IF frequency \notin Frequencies
        \/ duration.unit \notin {"day", "week", "month", "year"}
    THEN Null
    ELSE LET multiplier == conversionTable(frequency, duration.unit)
             rawCount == (duration.value * multiplier[1]) \div multiplier[2]
         IN  IF frequency = "WEEKLY" /\ weekdayCount > 1
             THEN Some(rawCount * weekdayCount)
             ELSE Some(rawCount)

\* durationToCount: Null or Some(count).  Math.floor(value * multiplier / interval)
\* is computed on the exact fraction: the double arithmetic of the source gives the
\* same integer for every value below 3000 and interval below 30.
durationToCount(duration, frequency, interval, weekdayCount) ==
    IF frequency \notin Frequencies
        \/ duration.unit \notin {"day", "week", "month", "year"}
    THEN Null
    ELSE LET multiplier == conversionTable(frequency, duration.unit)
             countWithInterval ==
                 (duration.value * multiplier[1]) \div (multiplier[2] * interval)
         IN  IF frequency = "WEEKLY" /\ weekdayCount > 1
             THEN Some(countWithInterval * weekdayCount)
             ELSE Some(countWithInterval)

MonthNames ==
    <<"january", "february", "march", "april", "may", "june", "july", "august",
      "september", "october", "november", "december">>

\* /starting\s+(\d{4})-(\d{2})-(\d{2})/
RE_startIso ==
    Cat(<<Lit("starting"), Plus(Space), Grp(1, Rep(Digit, 4, 4)), Lit("-"),
          Grp(2, Rep(Digit, 2, 2)), Lit("-"), Grp(3, Rep(Digit, 2, 2))>>)

\* /starting\s+(january|...|december)\s+(\d{1,2}),?\s+(\d{4})/i
RE_startMonth ==
    Cat(<<Lit("starting"), Plus(Space), Grp(1, Words(MonthNames)), Plus(Space),
          Grp(2, Rep(Digit, 1, 2)), Opt(Lit(",")), Plus(Space), Grp(3, Rep(Digit, 4, 4))>>)

padStart2(s) == IF Len(s) < 2 THEN "0" \o s ELSE s

\* parseStartDate: "" for null, or the date as YYYYMMDD
parseStartDate(text) ==
    LET isoMatch == Match(text, RE_startIso)
        monthMatch == Match(text, RE_startMonth)
    IN  IF isoMatch.found THEN isoMatch.caps[1] \o isoMatch.caps[2] \o isoMatch.caps[3]
        ELSE IF monthMatch.found
        THEN LET n == CHOOSE j \in 1..12 : MonthNames[j] = toLowerCase(monthMatch.caps[1])
             IN  monthMatch.caps[3] \o padStart2(ToString(n)) \o padStart2(monthMatch.caps[2])
        ELSE ""

(***************************************************************************)
(* matchers.ts                                                             *)
(***************************************************************************)
\* new RegExp(`\\b${name}\\b`, "i")
WordRE(name) == Cat(<<Wb, Lit(name), Wb>>)

\* dayMap of matchWeekdays, in the order of Object.entries
dayMap ==
    <<<<"monday", "MO">>, <<"mon", "MO">>, <<"tuesday", "TU">>, <<"tue", "TU">>,
      <<"tues", "TU">>, <<"wednesday", "WE">>, <<"wed", "WE">>, <<"thursday", "TH">>,
      <<"thu", "TH">>, <<"thur", "TH">>, <<"thurs", "TH">>, <<"friday", "FR">>,
      <<"fri", "FR">>, <<"saturday", "SA">>, <<"sat", "SA">>, <<"sunday", "SU">>,
      <<"sun", "SU">>>>

includes(seq, x) == \E i \in 1..Len(seq) : seq[i] = x

RECURSIVE pushNew(_, _, _)
\* if (!arr.includes(x)) arr.push(x), for the elements i.. of xs in their order
pushNew(arr, xs, i) ==
    IF i > Len(xs) THEN arr
    ELSE IF includes(arr, xs[i]) THEN pushNew(arr, xs, i + 1)
    ELSE pushNew(Append(arr, xs[i]), xs, i + 1)

\* the second components of a sequence of pairs
seconds(pairs) == [i \in 1..Len(pairs) |-> pairs[i][2]]

\* the entries of dayMap with a name the text has, as the text has them from
\* left to right: /\b(monday|mon|...|sun)\b/g
RE_anyDay == Cat(<<Wb, Grp(1, Words([i \in 1..Len(dayMap) |-> dayMap[i][1]])), Wb>>)

weekdayHits_textOrder(text) ==
    LET ms == MatchAll(text, RE_anyDay)
    IN  [k \in 1..Len(ms) |->
            dayMap[CHOOSE i \in 1..Len(dayMap) : dayMap[i][1] = ms[k].caps[1]]]

\* the entries [name, code] of dayMap whose pattern.test(text) holds, in the
\* order in which the loop of matchWeekdays comes to them
weekdayHits(text) == SelectSeq(dayMap, LAMBDA entry : Test(WordRE(entry[1]), text))

\* /\bweekday(s)?\b/ and /\bweekend(s)?\b/
RE_weekday == Cat(<<Wb, Lit("weekday"), Opt(Lit("s")), Wb>>)
RE_weekend == Cat(<<Wb, Lit("weekend"), Opt(Lit("s")), Wb>>)

matchWeekdays(text) ==
    IF Test(RE_weekday, text) THEN <<"MO", "TU", "WE", "TH", "FR">>
    ELSE IF Test(RE_weekend, text) THEN <<"SA", "SU">>
    ELSE pushNew(<<>>, seconds(weekdayHits(text)), 1)

\* positionMap and dayMap of matchNthWeekdays, in the order of Object.entries
positionMap ==
    <<<<"first", "1">>, <<"second", "2">>, <<"third", "3">>, <<"fourth", "4">>,
      <<"fifth", "5">>, <<"last", "-1">>>>

nthDayMap ==
    <<<<"monday", "MO">>, <<"tuesday", "TU">>, <<"wednesday", "WE">>, <<"thursday", "TH">>,
      <<"friday", "FR">>, <<"saturday", "SA">>, <<"sunday", "SU">>>>

\* new RegExp(`\\b${position}\\s+${day}\\b`, "i")
DirectRE(position, day) == Cat(<<Wb, Lit(position), Plus(Space), Lit(day), Wb>>)

\* new RegExp(`\\b${position}\\b[^.]*?\\b${day}\\b`, "i")
ContextRE(position, day) ==
    Cat(<<Wb, Lit(position), Wb, LazyStar(NotCls({"."})), Wb, Lit(day), Wb>>)

\* the pairs <<position, day>> of entries of the two maps, in the order of the
\* loops of the first pass (positions outside) and of the second (days outside)
positionMajor ==
    [k \in 1..(Len(positionMap) * Len(nthDayMap)) |->
        <<positionMap[((k - 1) \div Len(nthDayMap)) + 1], nthDayMap[((k - 1) % Len(nthDayMap)) + 1]>>]
dayMajor ==
    [k \in 1..(Len(nthDayMap) * Len(positionMap)) |->
        <<positionMap[((k - 1) % Len(positionMap)) + 1], nthDayMap[((k - 1) \div Len(positionMap)) + 1]>>]

\* `${num}${code}` of each pair
combos(pairs) == [i \in 1..Len(pairs) |-> pairs[i][1][2] \o pairs[i][2][2]]

\* first pass of matchNthWeekdays: the combos of the pairs "first monday"
firstPass(text, nthWeekdays) ==
    pushNew(nthWeekdays,
            combos(SelectSeq(positionMajor,
                             LAMBDA pair : Test(DirectRE(pair[1][1], pair[2][1]), text))),
            1)

\* second pass of matchNthWeekdays: for a day the text names, the combos of the
\* positions that stand somewhere before it
secondPass(text, nthWeekdays) ==
    pushNew(nthWeekdays,
            combos(SelectSeq(dayMajor,
                             LAMBDA pair : /\ Test(WordRE(pair[2][1]), text)
                                           /\ Test(ContextRE(pair[1][1], pair[2][1]), text))),
            1)

\* /-?\d+/
RE_signedNumber == Cat(<<Opt(Lit("-")), Plus(Digit)>>)

\* parseInt(a.match(/-?\d+/)?.[0] || "0", 10)
numericPrefix(a) ==
    LET m == Match(a, RE_signedNumber) IN IF m.found THEN parseInt(m.text) ELSE 0

\* a comparator without the two lines that put -1 at the end
nthCompare_plain(a, b) == numericPrefix(a) - numericPrefix(b)

\* the comparator of the sort of matchNthWeekdays
nthCompare(a, b) ==
    LET numA == numericPrefix(a)
        numB == numericPrefix(b)
    IN  IF numA = -1 THEN 1
        ELSE IF numB = -1 THEN -1
        ELSE numA - numB

\* the comparator (a, b) => a - b
numCompare(a, b) == a - b

\* comparefn(a, b) of the two sorts of matchers.ts
compare(comparefn, a, b) ==
    IF comparefn = "nthCompare" THEN nthCompare(a, b) ELSE numCompare(a, b)

RECURSIVE insertSorted(_, _, _, _)
\* x put into the sorted sequence: before the elements it compares below, scanning
\* from the right, so after every element it does not compare below
insertSorted(sorted, x, j, comparefn) ==
    IF j >= 1 /\ compare(comparefn, x, sorted[j]) < 0
    THEN insertSorted(sorted, x, j - 1, comparefn)
    ELSE SubSeq(sorted, 1, j) \o <<x>> \o SubSeq(sorted, j + 1, Len(sorted))

RECURSIVE sortFrom(_, _, _, _)
sortFrom(arr, i, sorted, comparefn) ==
    IF i > Len(arr) THEN sorted
    ELSE sortFrom(arr, i + 1, insertSorted(sorted, arr[i], Len(sorted), comparefn), comparefn)

\* Array.prototype.sort(comparefn): a stable insertion sort, which is what the
\* engine does with arrays this short
sort(arr, comparefn) == sortFrom(arr, 1, <<>>, comparefn)

matchNthWeekdays(text) ==
    sort(secondPass(text, firstPass(text, <<>>)), "nthCompare")

\* /\blast\s+day\s+of\s+(?:the\s+|every\s+)?month\b/
RE_lastDay ==
    Cat(<<Wb, Lit("last"), Plus(Space), Lit("day"), Plus(Space), Lit("of"), Plus(Space),
          Opt(Alt(<<Cat(<<Lit("the"), Plus(Space)>>), Cat(<<Lit("every"), Plus(Space)>>)>>)),
          Lit("month"), Wb>>)

\* /\b(\d{1,2})(?:st|nd|rd|th)\b/g
RE_ordinal == Cat(<<Wb, Grp(1, Rep(Digit, 1, 2)), Words(<<"st", "nd", "rd", "th">>), Wb>>)

\* the loop of matchMonthDays over the matches: the days 1..31, each once
monthDayLoop(ms) ==
    pushNew(<<>>,
            SelectSeq([i \in 1..Len(ms) |-> parseInt(ms[i].caps[1])],
                      LAMBDA day : day >= 1 /\ day <= 31),
            1)

matchMonthDays(text) ==
    IF Test(RE_lastDay, text) THEN <<-1>>
    ELSE sort(monthDayLoop(MatchAll(text, RE_ordinal)), "numCompare")

\* monthMap of matchMonths, in the order of Object.entries
monthMap ==
    <<<<"january", 1>>, <<"jan", 1>>, <<"february", 2>>, <<"feb", 2>>, <<"march", 3>>,
      <<"mar", 3>>, <<"april", 4>>, <<"apr", 4>>, <<"may", 5>>, <<"june", 6>>, <<"jun", 6>>,
      <<"july", 7>>, <<"jul", 7>>, <<"august", 8>>, <<"aug", 8>>, <<"september", 9>>,
      <<"sep", 9>>, <<"sept", 9>>, <<"october", 10>>, <<"oct", 10>>, <<"november", 11>>,
      <<"nov", 11>>, <<"december", 12>>, <<"dec", 12>>>>

\* the loop of matchMonths: the numbers of the entries of monthMap whose
\* pattern.test(text) holds, each once
monthLoop(text) ==
    pushNew(<<>>,
            seconds(SelectSeq(monthMap, LAMBDA entry : Test(WordRE(entry[1]), text))),
            1)

matchMonths(text) == sort(monthLoop(text), "numCompare")

\* /between\s+(\d{1,2})(?::(\d{2}))?\s*(am|pm)?\s+and\s+(\d{1,2})(?::(\d{2}))?\s*(am|pm)?/i
RE_range ==
    Cat(<<Lit("between"), Plus(Space),
          Grp(1, Rep(Digit, 1, 2)), Opt(Cat(<<Lit(":"), Grp(2, Rep(Digit, 2, 2))>>)),
          Star(Space), Opt(Grp(3, AmPm)), Plus(Space), Lit("and"), Plus(Space),
          Grp(4, Rep(Digit, 1, 2)), Opt(Cat(<<Lit(":"), Grp(5, Rep(Digit, 2, 2))>>)),
          Star(Space), Opt(Grp(6, AmPm))>>)

\* a conversion that adds 12 to every pm hour, noon included
to24_noNoon(hour, period) ==
    IF period = "pm" THEN hour + 12
    ELSE IF period = "am" /\ hour = 12 THEN 0
    ELSE hour
\* the conversion of an end of the range to the 24-hour clock
to24(hour, period) ==
    IF period = "pm" /\ hour # 12 THEN hour + 12
    ELSE IF period = "am" /\ hour = 12 THEN 0
    ELSE hour

\* for (let h = from; h < to; h++) hours.push(h): the last hour is left out
hoursFromTo_exclusive(from, to) == [i \in 1..(IF to > from THEN to - from ELSE 0) |-> from + i - 1]

\* for (let h = from; h <= to; h++) hours.push(h)
hoursFromTo(from, to) == [i \in 1..(IF to >= from THEN to - from + 1 ELSE 0) |-> from + i - 1]

\* matchHourRange: Null or Some(hours)
matchHourRange(text) ==
    LET match == Match(text, RE_range)
        startHour == to24(parseInt(match.caps[1]), match.caps[3])
        endHour == to24(parseInt(match.caps[4]), match.caps[6])
    IN  IF ~match.found THEN Null
        ELSE IF startHour > endHour
        THEN Some(hoursFromTo(startHour, 23) \o hoursFromTo(0, endHour))
        ELSE Some(hoursFromTo(startHour, endHour))

\* the frequency keywords, in the order of the if/else chain of matchPatterns
\* /\b(hourly|every\s+hour)\b/ ... /\b(quarterly)\b/
KeywordRE(word, unit) ==
    Cat(<<Wb, Alt(<<Lit(word), Cat(<<Lit("every"), Plus(Space), Lit(unit)>>)>>), Wb>>)
RE_yearly ==
    Cat(<<Wb, Alt(<<Lit("yearly"), Lit("annually"),
                    Cat(<<Lit("every"), Plus(Space), Lit("year")>>)>>), Wb>>)
RE_quarterly == Cat(<<Wb, Lit("quarterly"), Wb>>)

\* the frequency and interval after the keyword chain: <<frequency, interval>>
matchKeyword(text) ==
    IF Test(KeywordRE("hourly", "hour"), text) THEN <<"HOURLY", Null>>
    ELSE IF Test(KeywordRE("daily", "day"), text) THEN <<"DAILY", Null>>
    ELSE IF Test(KeywordRE("weekly", "week"), text) THEN <<"WEEKLY", Null>>
    ELSE IF Test(KeywordRE("monthly", "month"), text) THEN <<"MONTHLY", Null>>
    ELSE IF Test(RE_yearly, text) THEN <<"YEARLY", Null>>
    ELSE IF Test(RE_quarterly, text) THEN <<"MONTHLY", Some(3)>>
    ELSE <<"", Null>>

\* the switch on intervalMatch.unit
unitFrequency(unit) ==
    CASE unit = "minute" -> "MINUTELY"
      [] unit = "hour" -> "HOURLY"
      [] unit = "day" -> "DAILY"
      [] unit = "week" -> "WEEKLY"
      [] unit = "month" -> "MONTHLY"
      [] unit = "year" -> "YEARLY"

\* lines 48-72: the frequency after the interval phrase
intervalFrequency(f, intervalMatch) ==
    IF IsNull(intervalMatch) THEN f ELSE unitFrequency(Val(intervalMatch).unit)

\* lines 48-51: the interval after the interval phrase
intervalValue(interval, intervalMatch) ==
    IF IsNull(intervalMatch) THEN interval ELSE Some(Val(intervalMatch).value)

\* a default to WEEKLY that does not ask for weekdays
weekdayDefault_always(f, weekdays) == IF f = "" THEN "WEEKLY" ELSE f

\* lines 77-80
weekdayDefault(f, weekdays) == IF Len(weekdays) > 0 /\ f = "" THEN "WEEKLY" ELSE f

\* an nth-weekday default that leaves a frequency that is already set
nthWeekdayOverride_unlessSet(f, nthWeekdays) ==
    IF Len(nthWeekdays) > 0 /\ f = "" THEN "MONTHLY" ELSE f
\* lines 85-88
nthWeekdayOverride(f, nthWeekdays) == IF Len(nthWeekdays) > 0 THEN "MONTHLY" ELSE f

\* lines 93-96
monthDayDefault(f, monthDays) == IF Len(monthDays) > 0 /\ f = "" THEN "MONTHLY" ELSE f

\* lines 104-128: the frequency adjustments 1 to 5, each on the result of the last
adjust1(f, hourRange) == IF ~IsNull(hourRange) /\ f = "" THEN "HOURLY" ELSE f
adjust2(f, months, nthWeekdays) ==
    IF Len(months) > 0 /\ Len(nthWeekdays) > 0 THEN "YEARLY" ELSE f
adjust3(f, months, weekdays, nthWeekdays) ==
    IF Len(months) > 0 /\ Len(weekdays) > 0 /\ Len(nthWeekdays) = 0 THEN "YEARLY" ELSE f
adjust4(f, months) == IF Len(months) > 0 /\ f = "" THEN "YEARLY" ELSE f
\* an adjustment 5 that only fills in a frequency that is not set
adjust5_unlessSet(f, hourRange, weekdays) ==
    IF ~IsNull(hourRange) /\ Len(weekdays) > 0 /\ f = "" THEN "HOURLY" ELSE f
adjust5(f, hourRange, weekdays) ==
    IF ~IsNull(hourRange) /\ Len(weekdays) > 0 THEN "HOURLY" ELSE f

\* the frequency of the MatchResult, from what the extractors found
resolveFrequency(keyword, intervalMatch, weekdays, nthWeekdays, monthDays, months, hourRange) ==
    adjust5(
        adjust4(
            adjust3(
                adjust2(
                    adjust1(
                        monthDayDefault(
                            nthWeekdayOverride(
                                weekdayDefault(intervalFrequency(keyword[1], intervalMatch),
                                               weekdays),
                                nthWeekdays),
                            monthDays),
                        hourRange),
                    months, nthWeekdays),
                months, weekdays, nthWeekdays),
            months),
        hourRange, weekdays)

\* the MatchResult, from what the extractors found
matchResult(keyword, intervalMatch, weekdays, nthWeekdays, monthDays, months, hourRange, times, count) ==
    [frequency |-> resolveFrequency(keyword, intervalMatch, weekdays, nthWeekdays,
                                    monthDays, months, hourRange),
     interval |-> intervalValue(keyword[2], intervalMatch),
     weekdays |-> weekdays,
     monthDays |-> monthDays,
     months |-> months,
     nthWeekdays |-> nthWeekdays,
     times |-> times,
     hourRange |-> hourRange,
     count |-> count]

\* matchPatterns: the MatchResult; frequency is "" where the source has null (the
\* source only tests it for truth and compares it with the frequency names)
matchPatterns(text) ==
    matchResult(matchKeyword(text), parseInterval(text), matchWeekdays(text),
                matchNthWeekdays(text), matchMonthDays(text), matchMonths(text),
                matchHourRange(text), extractTimes(text), parseCount(text))

(***************************************************************************)
(* rrule-builder.ts                                                        *)
(***************************************************************************)
RECURSIVE join(_, _)
\* Array.prototype.join of strings
join(parts, sep) ==
    IF Len(parts) = 0 THEN ""
    ELSE IF Len(parts) = 1 THEN parts[1]
    ELSE join(SubSeq(parts, 1, Len(parts) \div 2), sep) \o sep
         \o join(SubSeq(parts, Len(parts) \div 2 + 1, Len(parts)), sep)

\* Array.prototype.join of numbers
joinNumbers(ns, sep) == join([i \in 1..Len(ns) |-> ToString(ns[i])], sep)

\* the distinct values sorted, not in the order of their first appearance
distinct_sorted(arr) == sort(pushNew(<<>>, arr, 1), "numCompare")

\* [...new Set(arr)]: the values in the order of their first appearance
distinct(arr) == pushNew(<<>>, arr, 1)

hoursOf(times) == [i \in 1..Len(times) |-> times[i].hour24]
minutesOf(times) == [i \in 1..Len(times) |-> times[i].minute]

allHoursAreWildcard(hours) == Len(hours) = 24

\* buildRRule throws when the frequency is not set
buildRRuleThrows(m) == m.frequency = ""

\* the parts array of buildRRule, where it does not throw
ruleParts(m) ==
    LET hours == distinct(hoursOf(m.times))
        minutes == sort(distinct(minutesOf(m.times)), "numCompare")
    IN      <<"FREQ=" \o m.frequency>>
            \o (IF ~IsNull(m.interval) /\ Val(m.interval) > 1
                THEN <<"INTERVAL=" \o ToString(Val(m.interval))>> ELSE <<>>)
            \o (IF ~IsNull(m.count) /\ Val(m.count) # 0
                THEN <<"COUNT=" \o ToString(Val(m.count))>> ELSE <<>>)
            \o (IF Len(m.months) > 0
                THEN <<"BYMONTH=" \o joinNumbers(m.months, ",")>> ELSE <<>>)
            \o (IF Len(m.nthWeekdays) > 0 THEN <<"BYDAY=" \o join(m.nthWeekdays, ",")>>
                ELSE IF Len(m.weekdays) > 0 THEN <<"BYDAY=" \o join(m.weekdays, ",")>>
                ELSE <<>>)
            \o (IF Len(m.monthDays) > 0
                THEN <<"BYMONTHDAY=" \o joinNumbers(m.monthDays, ",")>> ELSE <<>>)
            \o (IF ~IsNull(m.hourRange)
                THEN <<"BYHOUR=" \o joinNumbers(Val(m.hourRange), ",")>>
                ELSE IF Len(m.times) > 0 /\ Len(hours) > 0 /\ ~allHoursAreWildcard(hours)
                THEN <<"BYHOUR=" \o joinNumbers(hours, ",")>>
                ELSE <<>>)
            \o (IF Len(m.times) > 0 /\ IsNull(m.hourRange) /\ Len(minutes) > 0
                THEN <<"BYMINUTE=" \o joinNumbers(minutes, ",")>> ELSE <<>>)

\* buildRRule without parts.push(`FREQ=${matches.frequency}`)
buildRRule_noFreq(m) == join(Tail(ruleParts(m)), ";")

\* a buildRRule that pushes the parts in the opposite order
buildRRule_backwards(m) ==
    join([i \in 1..Len(ruleParts(m)) |-> ruleParts(m)[Len(ruleParts(m)) + 1 - i]], ";")

\* buildRRule, where it does not throw: parts.join(";")
buildRRule(m) == join(ruleParts(m), ";")

\* normalizeMatches returns a copy of its argument: none of its branches changes it
normalizeMatches(m) == m

(***************************************************************************)
(* index.ts                                                                *)
(***************************************************************************)
\* a detectConflicts without the two nth-weekday checks (lines 16-24)
detectConflicts_noNth(m) ==
    IF m.frequency = "YEARLY" /\ Len(m.monthDays) > 0 /\ Len(m.months) = 0
    THEN "Ambiguous pattern: yearly frequency with specific days (e.g., '15th') requires specifying which month(s). Please add a month like 'in january'."
    ELSE IF ~IsNull(m.interval) /\ Val(m.interval) > 1
            /\ m.frequency = "MINUTELY" /\ Len(m.times) > 0 /\ IsNull(m.hourRange)
    THEN "Conflicting patterns: cannot combine interval-based minutely recurrence (e.g., 'every 15 minutes') with specific times (e.g., 'at 9am'). Choose one approach."
    ELSE IF ~IsNull(m.interval) /\ Val(m.interval) > 1
            /\ m.frequency = "HOURLY" /\ Len(m.times) > 0 /\ m.times[1].minute # 0
    THEN "Conflicting patterns: interval-based hourly recurrence (e.g., 'every 2 hours') with non-zero minutes is ambiguous. Use 'at :00' for on-the-hour times."
    ELSE IF ~IsNull(m.hourRange) /\ m.frequency # "HOURLY" /\ m.frequency # "MINUTELY"
    THEN "Conflicting patterns: hour ranges (e.g., 'between 9am and 5pm') require hourly or minutely frequency. Current frequency is " \o m.frequency \o "."
    ELSE ""

\* a detectConflicts without the hour-range check (lines 42-45)
detectConflicts_noRange(m) ==
    IF (m.frequency = "HOURLY" \/ m.frequency = "MINUTELY") /\ Len(m.nthWeekdays) > 0
    THEN "Conflicting patterns: hourly/minutely frequency cannot be combined with nth weekday patterns (e.g., 'first monday'). Please use a daily, weekly, or monthly frequency."
    ELSE IF m.frequency = "DAILY" /\ Len(m.nthWeekdays) > 0
    THEN "Conflicting patterns: daily frequency cannot be combined with nth weekday patterns (e.g., 'first monday'). Please use weekly or monthly frequency."
    ELSE IF m.frequency = "YEARLY" /\ Len(m.monthDays) > 0 /\ Len(m.months) = 0
    THEN "Ambiguous pattern: yearly frequency with specific days (e.g., '15th') requires specifying which month(s). Please add a month like 'in january'."
    ELSE IF ~IsNull(m.interval) /\ Val(m.interval) > 1
            /\ m.frequency = "MINUTELY" /\ Len(m.times) > 0 /\ IsNull(m.hourRange)
    THEN "Conflicting patterns: cannot combine interval-based minutely recurrence (e.g., 'every 15 minutes') with specific times (e.g., 'at 9am'). Choose one approach."
    ELSE IF ~IsNull(m.interval) /\ Val(m.interval) > 1
            /\ m.frequency = "HOURLY" /\ Len(m.times) > 0 /\ m.times[1].minute # 0
    THEN "Conflicting patterns: interval-based hourly recurrence (e.g., 'every 2 hours') with non-zero minutes is ambiguous. Use 'at :00' for on-the-hour times."
    ELSE ""

\* detectConflicts: "" for null, or the message
detectConflicts(m) ==
    IF (m.frequency = "HOURLY" \/ m.frequency = "MINUTELY") /\ Len(m.nthWeekdays) > 0
    THEN "Conflicting patterns: hourly/minutely frequency cannot be combined with nth weekday patterns (e.g., 'first monday'). Please use a daily, weekly, or monthly frequency."
    ELSE IF m.frequency = "DAILY" /\ Len(m.nthWeekdays) > 0
    THEN "Conflicting patterns: daily frequency cannot be combined with nth weekday patterns (e.g., 'first monday'). Please use weekly or monthly frequency."
    ELSE IF m.frequency = "YEARLY" /\ Len(m.monthDays) > 0 /\ Len(m.months) = 0
    THEN "Ambiguous pattern: yearly frequency with specific days (e.g., '15th') requires specifying which month(s). Please add a month like 'in january'."
    ELSE IF ~IsNull(m.interval) /\ Val(m.interval) > 1
            /\ m.frequency = "MINUTELY" /\ Len(m.times) > 0 /\ IsNull(m.hourRange)
    THEN "Conflicting patterns: cannot combine interval-based minutely recurrence (e.g., 'every 15 minutes') with specific times (e.g., 'at 9am'). Choose one approach."
    ELSE IF ~IsNull(m.interval) /\ Val(m.interval) > 1
            /\ m.frequency = "HOURLY" /\ Len(m.times) > 0 /\ m.times[1].minute # 0
    THEN "Conflicting patterns: interval-based hourly recurrence (e.g., 'every 2 hours') with non-zero minutes is ambiguous. Use 'at :00' for on-the-hour times."
    ELSE IF ~IsNull(m.hourRange) /\ m.frequency # "HOURLY" /\ m.frequency # "MINUTELY"
    THEN "Conflicting patterns: hour ranges (e.g., 'between 9am and 5pm') require hourly or minutely frequency. Current frequency is " \o m.frequency \o "."
    ELSE ""

\* the two variants of RRuleResult (and the state before the function returns)
NoResult == [kind |-> "none", rrules |-> <<>>, unsupported |-> "", dtstart |-> ""]
Unsupported(msg) == [kind |-> "unsupported", rrules |-> <<>>, unsupported |-> msg, dtstart |-> ""]
\* { rrules }, with result.dtstart set when dtstart is not null
Success(rrules, start) == [kind |-> "rrules", rrules |-> rrules, unsupported |-> "", dtstart |-> start]

\* /(?:at\s+|^|\s)(-?\d{1,2})(:\d{2})?\s*(am|pm)?(?:\s|$)/gi
RE_invalidTimePattern ==
    Cat(<<Alt(<<Cat(<<Lit("at"), Plus(Space)>>), Bol, Space>>),
          Grp(1, Cat(<<Opt(Lit("-")), Rep(Digit, 1, 2)>>)),
          Opt(Grp(2, Cat(<<Lit(":"), Rep(Digit, 2, 2)>>))),
          Star(Space), Opt(Grp(3, AmPm)), Alt(<<Space, Eol>>)>>)

\* /^at\s+/
RE_leadingAt == Cat(<<Bol, Lit("at"), Plus(Space)>>)
\* /am|pm/i
RE_amOrPm == AmPm
\* /^-?\d{1,2}(:\d{2})?(am|pm)?$/i
RE_wholeTime ==
    Cat(<<Bol, Opt(Lit("-")), Rep(Digit, 1, 2), Opt(Cat(<<Lit(":"), Rep(Digit, 2, 2)>>)),
          Opt(AmPm), Eol>>)

\* timeStr of one match of the invalid-time scan
timeStrOf(match) == ReplaceFirst(trim(match.text), RE_leadingAt, "")

\* the condition under which the scan hands timeStr to parseTime
looksLikeTime(timeStr) ==
    /\ (Test(Lit(":"), timeStr) \/ Test(RE_amOrPm, timeStr))
    /\ Test(RE_wholeTime, timeStr)

RECURSIVE invalidTimeLoop(_, _)
\* the for loop over timeMatches: the first timeStr parseTime rejects, "" if none
invalidTimeLoop(ms, i) ==
    IF i > Len(ms) THEN ""
    ELSE IF looksLikeTime(timeStrOf(ms[i])) /\ IsNull(parseTime(timeStrOf(ms[i])))
    THEN timeStrOf(ms[i])
    ELSE invalidTimeLoop(ms, i + 1)

invalidTime(text) == invalidTimeLoop(MatchAll(text, RE_invalidTimePattern), 1)

invalidTimeMessage(timeStr) ==
    "Invalid time value \"" \o timeStr
    \o "\". Hours must be 0-23 (or 1-12 with am/pm) and minutes must be 0-59."

\* lines 113-121: the COUNT of a duration phrase
withDurationCount(m, text) ==
    LET duration == parseDuration(text)
        weekdayCount == IF Len(m.weekdays) > 0 THEN Len(m.weekdays) ELSE 1
        interval == IF ~IsNull(m.interval) /\ Val(m.interval) # 0 THEN Val(m.interval) ELSE 1
        calculatedCount == durationToCount(Val(duration), m.frequency, interval, weekdayCount)
    IN  IF ~IsNull(duration) /\ (IsNull(m.count) \/ Val(m.count) = 0)
            /\ ~IsNull(calculatedCount) /\ Val(calculatedCount) > 0
        THEN [m EXCEPT !.count = calculatedCount]
        ELSE m

\* a rruled that never splits: one RRULE with every hour and every minute
needsSplit_never(m) == FALSE

\* a split condition that does not look at the hour range
needsSplit_ignoringRange(m) ==
    /\ Len(m.times) > 1
    /\ Cardinality({m.times[i].minute : i \in 1..Len(m.times)}) > 1
    /\ Cardinality({m.times[i].hour24 : i \in 1..Len(m.times)}) > 1

\* a split condition that waits for a third time
needsSplit_fromThree(m) ==
    /\ Len(m.times) > 2
    /\ IsNull(m.hourRange)
    /\ Cardinality({m.times[i].minute : i \in 1..Len(m.times)}) > 1
    /\ Cardinality({m.times[i].hour24 : i \in 1..Len(m.times)}) > 1
\* the condition of the cartesian split
needsSplit(m) ==
    /\ Len(m.times) > 1
    /\ IsNull(m.hourRange)
    /\ Cardinality({m.times[i].minute : i \in 1..Len(m.times)}) > 1
    /\ Cardinality({m.times[i].hour24 : i \in 1..Len(m.times)}) > 1

ambiguousMessage(count, numTimes) ==
    "Ambiguous: specified " \o ToString(count) \o " occurrence(s) but " \o ToString(numTimes)
    \o " different times. Unable to determine which times should fire. Please specify \"for "
    \o ToString(numTimes) \o " occurrences\" or more, or reduce the number of times."

\* a split that gives every rule the whole COUNT
splitCount_duplicated(m, i) == m.count

\* count of the i-th rule of the split (i from 0 as in the source)
splitCount(m, i) ==
    LET numTimes == Len(m.times)
        countPerRule == Val(m.count) \div numTimes
        remainderCount == Val(m.count) % numTimes
    IN  IF IsNull(m.count) THEN Null
        ELSE Some(countPerRule + (IF i < remainderCount THEN 1 ELSE 0))

\* matchesForTime of the i-th time (i from 0 as in the source)
matchesForTime(m, i) == [m EXCEPT !.times = <<m.times[i + 1]>>, !.count = splitCount(m, i)]

buildFailure == "Could not construct a valid RRULE: Frequency is required for RRULE"

\* the split of the earlier index.ts (part_001, lines 86-126): with COUNT below the
\* number of times it emits the first COUNT rules, each with COUNT=1
splitResult_old(m, start) ==
    LET numTimes == Len(m.times)
        rulesToCreate ==
            IF ~IsNull(m.count) /\ Val(m.count) < numTimes THEN Val(m.count) ELSE numTimes
    IN  IF buildRRuleThrows(m) THEN Unsupported(buildFailure)
        ELSE Success([i \in 1..rulesToCreate |->
                        buildRRule(normalizeMatches(
                            [m EXCEPT !.times = <<m.times[i]>>,
                                      !.count = IF IsNull(m.count) THEN Null
                                                ELSE IF Val(m.count) < numTimes THEN Some(1)
                                                ELSE splitCount(m, i - 1)]))],
                     start)

\* a split without the test of COUNT against the number of times
splitResult_unchecked(m, start) ==
    IF buildRRuleThrows(m) THEN Unsupported(buildFailure)
    ELSE Success([i \in 1..Len(m.times) |-> buildRRule(normalizeMatches(matchesForTime(m, i - 1)))],
                 start)

\* lines 126-183: the result of the cartesian split
splitResult(m, start) ==
    LET numTimes == Len(m.times)
    IN  IF ~IsNull(m.count) /\ Val(m.count) < numTimes
        THEN Unsupported(ambiguousMessage(Val(m.count), numTimes))
        ELSE IF buildRRuleThrows(m) THEN Unsupported(buildFailure)
        ELSE Success([i \in 1..numTimes |-> buildRRule(normalizeMatches(matchesForTime(m, i - 1)))],
                     start)

\* lines 185-199: the single RRULE
singleResult(m, start) ==
    IF buildRRuleThrows(m) THEN Unsupported(buildFailure)
    ELSE Success(<<buildRRule(normalizeMatches(m))>>, start)

emptyMessage == "Could not understand the input. Please provide a schedule description."
noFrequencyMessage ==
    "Could not understand the input. Please use natural language like 'every monday at 9am'."

\* rruled as a function of its input: the steps below, one after the other
rruled(text) ==
    LET normalized == normalizeInput(text)
        found == matchPatterns(normalized)
        counted == withDurationCount(found, normalized)
        start == parseStartDate(normalized)
    IN  IF normalized = "" THEN Unsupported(emptyMessage)
        ELSE IF invalidTime(normalized) # ""
        THEN Unsupported(invalidTimeMessage(invalidTime(normalized)))
        ELSE IF found.frequency = "" THEN Unsupported(noFrequencyMessage)
        ELSE IF detectConflicts(found) # "" THEN Unsupported(detectConflicts(found))
        ELSE IF needsSplit(counted) THEN splitResult(counted, start)
        ELSE singleResult(counted, start)
NoMatches ==
    [frequency |-> "", interval |-> Null, weekdays |-> <<>>, monthDays |-> <<>>,
     months |-> <<>>, nthWeekdays |-> <<>>, times |-> <<>>, hourRange |-> Null,
     count |-> Null]

(***************************************************************************)
(* rruled, step by step.  Every step that returns sets result and ends at  *)
(* pc = "done".                                                            *)
(***************************************************************************)
Return(r) == result' = r /\ pc' = "done"

\* lines 69-76
Normalize ==
    /\ pc = "start"
    /\ normalizedText' = normalizeInput(input)
    /\ IF normalizedText' = "" THEN Return(Unsupported(emptyMessage))
       ELSE pc' = "precheck" /\ UNCHANGED result
    /\ UNCHANGED <<input, matches, dtstart, written>>

\* lines 78-95
CheckInvalidTimes ==
    /\ pc = "precheck"
    /\ IF invalidTime(normalizedText) # ""
       THEN Return(Unsupported(invalidTimeMessage(invalidTime(normalizedText))))
       ELSE pc' = "match" /\ UNCHANGED result
    /\ UNCHANGED <<input, normalizedText, matches, dtstart, written>>

\* lines 97-105
MatchPatterns ==
    /\ pc = "match"
    /\ matches' = matchPatterns(normalizedText)
    /\ IF matches'.frequency = "" THEN Return(Unsupported(noFrequencyMessage))
       ELSE pc' = "conflicts" /\ UNCHANGED result
    /\ UNCHANGED <<input, normalizedText, dtstart, written>>

\* lines 107-111
DetectConflicts ==
    /\ pc = "conflicts"
    /\ IF detectConflicts(matches) # "" THEN Return(Unsupported(detectConflicts(matches)))
       ELSE pc' = "duration" /\ UNCHANGED result
    /\ UNCHANGED <<input, normalizedText, matches, dtstart, written>>

\* lines 113-124
ConvertDuration ==
    /\ pc = "duration"
    /\ matches' = withDurationCount(matches, normalizedText)
    /\ dtstart' = parseStartDate(normalizedText)
    /\ pc' = "emit"
    /\ UNCHANGED <<input, normalizedText, result, written>>

\* lines 126-199
Emit ==
    /\ pc = "emit"
    /\ IF needsSplit(matches) THEN Return(splitResult(matches, dtstart))
       ELSE Return(singleResult(matches, dtstart))
    /\ UNCHANGED <<input, normalizedText, matches, dtstart, written>>

Next == Normalize \/ CheckInvalidTimes \/ MatchPatterns \/ DetectConflicts
        \/ ConvertDuration \/ Emit

(***************************************************************************)
(* The inputs.  Each is put together from tokens, which written records, so  *)
(* that a property can speak of what was written.                          *)
(***************************************************************************)
MaxTimes == 3
MaxCount == 10
MaxWords == 3

SeqsUpTo(S, n) == UNION {[1..k -> S] : k \in 1..n}

\* the time tokens of the schedules, with the time of day each one states
TimeTable ==
    <<<<"9:15am", 9, 15>>, <<"5:45pm", 17, 45>>, <<"9am", 9, 0>>>>
TimeTokens == {TimeTable[i][1] : i \in 1..Len(TimeTable)}
Stated(tok) ==
    LET i == CHOOSE j \in 1..Len(TimeTable) : TimeTable[j][1] = tok
    IN  Time(TimeTable[i][2], TimeTable[i][3])

\* "daily at 9:15am and 5:45pm for 10 occurrences": n is the count, -1 for no
\* count phrase and -2 for the duration "for 1 week"
TimesParts ==
    {[family |-> "times", tokens |-> ts, n |-> c] :
        ts \in SeqsUpTo(TimeTokens, MaxTimes), c \in -2..MaxCount}
CountPhrase(c) ==
    IF c = -1 THEN ""
    ELSE IF c = -2 THEN " for 1 week"
    ELSE IF c = 1 THEN " for 1 occurrence"
    ELSE " for " \o ToString(c) \o " occurrences"
TimesText(p) == "daily at " \o join(p.tokens, " and ") \o CountPhrase(p.n)

\* day names and position words in any order: "last friday and first monday"
DayWords == {"first", "third", "last", "monday", "friday", "fri", "and"}
WordsParts ==
    {[family |-> "words", tokens |-> ws, n |-> 0] : ws \in SeqsUpTo(DayWords, MaxWords)}
WordsText(p) == join(p.tokens, " ")

\* time-shaped tokens, in and out of range, at several places of a sentence
ShapedTokens ==
    {"25:00", "9:99am", "25am", "13 pm", "-5:00", "-5pm", "-5:30pm", "24:00", "0am",
     "9am", "23:59", "12:30pm"}
Places == 1..5
ShapedParts ==
    {[family |-> "shaped", tokens |-> <<tok>>, n |-> place] :
        tok \in ShapedTokens, place \in Places}
ShapedText(p) ==
    LET tok == p.tokens[1]
    IN  CASE p.n = 1 -> "every day at " \o tok
          [] p.n = 2 -> "every day at " \o tok \o ", 10am"
          [] p.n = 3 -> "every day at 10am " \o tok
          [] p.n = 4 -> "at " \o tok \o " every day"
          [] p.n = 5 -> "Every Day at  " \o tok \o " and 10am"

\* schedules with a duration phrase: "every 3 days for 2 weeks", and with a count
\* phrase before it: "daily for 3 occurrences for 2 weeks".  Each schedule phrase
\* comes with the frequency, the interval and the number of weekdays it states.
MaxDuration == 6

ScheduleTable ==
    <<<<"daily", "DAILY", 1, 0>>, <<"weekly", "WEEKLY", 1, 0>>,
      <<"every monday", "WEEKLY", 1, 1>>, <<"every monday and wednesday", "WEEKLY", 1, 2>>,
      <<"every 2 weeks on monday and friday", "WEEKLY", 2, 2>>,
      <<"every hour", "HOURLY", 1, 0>>, <<"every 15 minutes", "MINUTELY", 15, 0>>,
      <<"every 3 days", "DAILY", 3, 0>>, <<"monthly", "MONTHLY", 1, 0>>,
      <<"quarterly", "MONTHLY", 3, 0>>, <<"yearly", "YEARLY", 1, 0>>>>
DurationUnits == {"day", "week", "month", "year"}
DurationParts ==
    {[family |-> "duration", tokens |-> <<ScheduleTable[b][1], u, c>>, n |-> v] :
        b \in 1..Len(ScheduleTable), u \in DurationUnits, c \in {"", "0", "3"},
        v \in 0..MaxDuration}
DurationText(p) ==
    p.tokens[1]
    \o (IF p.tokens[3] = "" THEN "" ELSE " for " \o p.tokens[3] \o " occurrences")
    \o " for " \o ToString(p.n) \o " " \o p.tokens[2] \o (IF p.n = 1 THEN "" ELSE "s")

\* sentences of the test suite and the README, one for every way rruled returns
Scenarios ==
    {"", "   ", "purple elephant dancing", "at 9am", "daily", "every monday at 9am",
     "first monday of the month", "last day of the month",
     "every 15 minutes between 9am and 5pm", "every weekday between 9am and 5pm",
     "hourly between 9pm and 5am", "daily between 9am and 5pm",
     "every 2 hours at 10:30am", "every 15 minutes at 9am", "hourly on the first monday",
     "yearly on the 15th", "on the 1st and 15th of every month at 9am",
     "last friday of january and june", "every monday and wednesday for 5 weeks",
     "every hour for 30 days", "daily for 10 occurrences", "quarterly",
     "every other week on friday and monday", "every tuesday and thursday",
     "last friday and first and third monday",
     "at 9:15am, 12:30pm, and 6:45pm every day",
     "daily at 9:15am, 12:30pm, and 5:45pm for 10 occurrences",
     "daily at 9:15am, 12:30pm, and 5:45pm for 2 occurrences",
     "every 2 hours at 9:15am and 5:45pm for 1 occurrence",
     "every monday at 9am starting 2025-01-15",
     "every day at 9:15am and 10:30am starting january 5, 2025",
     "hourly between 9 and 30", "hourly between 9:15am and 5:45pm",
     "every 15 minutes between 9:15am and 5:45pm at 12:30pm",
     "daily at 5:30pm, 9:30am and 5:30pm for 3 occurrences",
     "monthly for 1 week", "daily for 0 occurrences for 2 weeks",
     "daily for 3 occurrences for 2 weeks", "at 25:00", "on the 32nd", "first of all",
     "daily at 0:00, 1:00, 2:00, 3:00, 4:00, 5:00, 6:00, 7:00, 8:00, 9:00, 10:00, 11:00, 12:00, 13:00, 14:00, 15:00, 16:00, 17:00, 18:00, 19:00, 20:00, 21:00, 22:00, 23:00"}
ScenarioParts == {[family |-> "scenario", tokens |-> <<s>>, n |-> 0] : s \in Scenarios}

TextOf(p) ==
    CASE p.family = "times" -> TimesText(p)
      [] p.family = "words" -> WordsText(p)
      [] p.family = "shaped" -> ShapedText(p)
      [] p.family = "duration" -> DurationText(p)
      [] p.family = "scenario" -> p.tokens[1]

Init ==
    /\ written \in TimesParts \cup WordsParts \cup ShapedParts \cup DurationParts
                 \cup ScenarioParts
    /\ input = TextOf(written)
    /\ pc = "start"
    /\ normalizedText = ""
    /\ matches = NoMatches
    /\ dtstart = ""
    /\ result = NoResult

Spec == Init /\ [][Next]_vars

(***************************************************************************)
(* parseTime on its own: tokens made of a sign, an hour, minutes and am/pm *)
(***************************************************************************)
MaxHour == 30

Signs == {"", "-"}
HourStrings == {ToString(h) : h \in 0..MaxHour} \cup {"00", "05", "09", "100", "112", "123"}
MinuteParts == {"", ":00", ":07", ":59", ":60", ":99", ":5", ":123"}
Suffixes == {"", "am", "pm"}
TimeWords == {"midnight", "noon"}

TokenParts ==
    {[family |-> "token", tokens |-> <<sg, h, mp, sf>>, n |-> 0] :
        sg \in Signs, h \in HourStrings, mp \in MinuteParts, sf \in Suffixes}
    \cup {[family |-> "token", tokens |-> <<"", w, "", "">>, n |-> 0] : w \in TimeWords}

InitTime ==
    /\ written \in TokenParts
    /\ input = join(written.tokens, "")
    /\ pc = "start"
    /\ normalizedText = ""
    /\ matches = <<>>
    /\ dtstart = ""
    /\ result = Null

\* const parsed = parseTime(input)
ParseTime ==
    /\ pc = "start"
    /\ result' = parseTime(input)
    /\ pc' = "parsed"
    /\ UNCHANGED <<input, normalizedText, matches, dtstart, written>>

\* const times = extractTimes(input)
ExtractTimes ==
    /\ pc = "parsed"
    /\ matches' = extractTimes(input)
    /\ pc' = "done"
    /\ UNCHANGED <<input, normalizedText, result, dtstart, written>>

NextTime == ParseTime \/ ExtractTimes

SpecTime == InitTime /\ [][NextTime]_vars

(***************************************************************************)
(* normalizeInput on its own, applied once and then to its own result      *)
(***************************************************************************)
MaxNormLen == 4

NormChars == {"A", "a", " ", "\t", ",", ";"}
CharsParts ==
    {[family |-> "chars", tokens |-> cs, n |-> 0] : cs \in SeqsUpTo(NormChars, MaxNormLen)}

InitNorm ==
    /\ written \in CharsParts
    /\ input = join(written.tokens, "")
    /\ pc = "start"
    /\ normalizedText = ""
    /\ matches = NoMatches
    /\ dtstart = ""
    /\ result = ""

\* const once = normalizeInput(input)
NormalizeOnce ==
    /\ pc = "start"
    /\ normalizedText' = normalizeInput(input)
    /\ pc' = "once"
    /\ UNCHANGED <<input, matches, dtstart, result, written>>

\* const twice = normalizeInput(once)
NormalizeTwice ==
    /\ pc = "once"
    /\ result' = normalizeInput(normalizedText)
    /\ pc' = "done"
    /\ UNCHANGED <<input, normalizedText, matches, dtstart, written>>

NextNorm == NormalizeOnce \/ NormalizeTwice

SpecNorm == InitNorm /\ [][NextNorm]_vars

(***************************************************************************)
(* buildRRule on its own, on MatchResults put together field by field      *)
(***************************************************************************)
\* the hours 0..23 on the hour: the case allHoursAreWildcard looks for
EveryHour == [h \in 1..24 |-> Time(h - 1, 0)]

MatchResults ==
    {[frequency |-> f, interval |-> i, weekdays |-> w, monthDays |-> md, months |-> mo,
      nthWeekdays |-> nw, times |-> t, hourRange |-> hr, count |-> c] :
        f \in {"", "DAILY", "WEEKLY", "HOURLY"},
        i \in {Null, Some(0), Some(1), Some(2)},
        w \in {<<>>, <<"MO", "FR">>},
        md \in {<<>>, <<-1>>, <<1, 15>>},
        mo \in {<<>>, <<1, 6>>},
        nw \in {<<>>, <<"1MO", "-1FR">>},
        t \in {<<>>, <<Time(9, 15)>>, <<Time(17, 45), Time(9, 15)>>,
                <<Time(9, 30), Time(9, 0), Time(9, 30)>>, EveryHour},
        hr \in {Null, Some(<<22, 23, 0>>)},
        c \in {Null, Some(0), Some(5)}}

InitBuild ==
    /\ matches \in MatchResults
    /\ written = [family |-> "build", tokens |-> <<>>, n |-> 0]
    /\ input = ""
    /\ pc = "start"
    /\ normalizedText = ""
    /\ dtstart = ""
    /\ result = [threw |-> FALSE, rrule |-> ""]

\* const rrule = buildRRule(matches), or the Error it throws
BuildRRule ==
    /\ pc = "start"
    /\ result' = IF buildRRuleThrows(matches) THEN [threw |-> TRUE, rrule |-> ""]
                  ELSE [threw |-> FALSE, rrule |-> buildRRule(matches)]
    /\ pc' = "done"
    /\ UNCHANGED <<input, normalizedText, matches, dtstart, written>>

NextBuild == BuildRRule

SpecBuild == InitBuild /\ [][NextBuild]_vars

(***************************************************************************)
(* rruled on sentences put together from a schedule phrase, a day phrase,  *)
(* a month phrase, a clock phrase and a start date                         *)
(***************************************************************************)
\* the schedule phrases, with the unit and the number of the interval each states
PhraseTable ==
    <<<<"", "", 0>>, <<"daily", "", 0>>, <<"hourly", "", 0>>, <<"weekly", "", 0>>,
      <<"monthly", "", 0>>, <<"every 2 hours", "hour", 2>>,
      <<"every 15 minutes", "minute", 15>>, <<"every 3 days", "day", 3>>,
      <<"every 2 weeks", "week", 2>>, <<"every other month", "month", 2>>>>
SchedulePhrases == {PhraseTable[i][1] : i \in 1..Len(PhraseTable)}
DayPhrases ==
    {"", "on monday", "on weekdays", "on the first monday",
     "on the first monday and last friday"}
MonthPhrases == {"", "in january"}
ClockPhrases ==
    {"", "between 9am and 5pm", "at 9am", "at 9am and 10:30am", "at 10:30am and 9am"}
StartPhrases == {"", "starting 2025-01-15", "starting january 15, 2025"}

\* tokens: <<schedule, days, months, clock, start>>
PhraseParts ==
    {[family |-> "phrase", tokens |-> <<s, d, mo, c, st>>, n |-> 0] :
        s \in SchedulePhrases, d \in DayPhrases, mo \in MonthPhrases, c \in ClockPhrases,
        st \in StartPhrases}

\* the phrases that are there, with one space between them
PhraseText(tokens) == join(SelectSeq(tokens, LAMBDA t : t # ""), " ")

InitPhrase ==
    /\ written \in PhraseParts
    /\ input = PhraseText(written.tokens)
    /\ pc = "start"
    /\ normalizedText = ""
    /\ matches = NoMatches
    /\ dtstart = ""
    /\ result = NoResult

SpecPhrase == InitPhrase /\ [][Next]_vars
(***************************************************************************)
(* matchHourRange on its own: "between <hour><period> and <hour><period>"  *)
(***************************************************************************)
Periods == {"", "am", "pm"}
RangeMinutes == {"", ":30"}

\* tokens: <<start hour, start minutes, start period, end hour, end period>>
RangeParts ==
    {[family |-> "range", tokens |-> <<ToString(s), sm, sp, ToString(e), ep>>, n |-> 0] :
        s \in 0..MaxHour, sm \in RangeMinutes, sp \in Periods, e \in 0..MaxHour,
        ep \in Periods}

RangeText(tokens) ==
    "every hour between " \o tokens[1] \o tokens[2] \o tokens[3] \o " and " \o tokens[4]
    \o tokens[5]

InitRange ==
    /\ written \in RangeParts
    /\ input = RangeText(written.tokens)
    /\ pc = "start"
    /\ normalizedText = ""
    /\ matches = NoMatches
    /\ dtstart = ""
    /\ result = Null

\* const hours = matchHourRange(text)
MatchHourRange ==
    /\ pc = "start"
    /\ result' = matchHourRange(input)
    /\ pc' = "done"
    /\ UNCHANGED <<input, normalizedText, matches, dtstart, written>>

NextRange == MatchHourRange

SpecRange == InitRange /\ [][NextRange]_vars
(***************************************************************************)
(* What the properties read off a state: the fields of an RRULE string and *)
(* the cases the specification speaks of                                   *)
(***************************************************************************)
StartsWith(s, prefix) == Len(s) >= Len(prefix) /\ Sub(s, 1, Len(prefix)) = prefix

Contains(s, part) ==
    \E i \in 1..(Len(s) - Len(part) + 1) : Sub(s, i, i + Len(part) - 1) = part

\* the pieces of s between the occurrences of the character sep
Split(s, sep) ==
    LET at == {i \in 1..Len(s) : Ch(s, i) = sep}
        nth(k) == IF k = 0 THEN 0
                  ELSE IF k > Cardinality(at) THEN Len(s) + 1
                  ELSE CHOOSE i \in at : Cardinality({j \in at : j < i}) = k - 1
    IN  [k \in 1..(Cardinality(at) + 1) |-> Sub(s, nth(k - 1) + 1, nth(k) - 1)]

\* the value of the part key=value of an RRULE, "" when it has no such part
FieldOf(rrule, key) ==
    LET ps == Split(rrule, ";")
        at == {i \in 1..Len(ps) : StartsWith(ps[i], key \o "=")}
    IN  IF at = {} THEN ""
        ELSE LET i == CHOOSE j \in at : \A k \in at : j <= k
             IN  Sub(ps[i], Len(key) + 2, Len(ps[i]))

\* the number a decimal numeral stands for
NumberOf(numeral) == CHOOSE k \in 0..99 : ToString(k) = numeral

\* more than one time, no hour range, more than one hour and more than one minute
SplitCase(m) ==
    /\ Len(m.times) > 1
    /\ IsNull(m.hourRange)
    /\ \E i, j \in 1..Len(m.times) : m.times[i].hour24 # m.times[j].hour24
    /\ \E i, j \in 1..Len(m.times) : m.times[i].minute # m.times[j].minute

Succeeded == pc = "done" /\ result.kind = "rrules"

(***************************************************************************)
(* C1                                                                      *)
(***************************************************************************)
\* C1: when rruled has returned, the result is one of the two variants: either
\* unsupported with a non-empty message and no rrules, or a success whose rrules
\* array has at least one string, each starting with "FREQ=".
C1_ResultVariant ==
    pc = "done" =>
        \/ /\ result.kind = "unsupported"
           /\ result.unsupported # ""
           /\ result.rrules = <<>>
        \/ /\ result.kind = "rrules"
           /\ result.unsupported = ""
           /\ Len(result.rrules) >= 1
           /\ \A i \in 1..Len(result.rrules) : StartsWith(result.rrules[i], "FREQ=")

C1_Witness ==
    /\ pc = "done"
    /\ input = "every monday at 9am"
    /\ result.kind = "rrules"
    /\ result.rrules = <<"FREQ=WEEKLY;BYDAY=MO;BYHOUR=9;BYMINUTE=0">>

(***************************************************************************)
(* C2                                                                      *)
(***************************************************************************)
\* C2: in the split case a success has one RRULE for each extracted time, in the
\* order of the text, and the i-th RRULE has BYHOUR and BYMINUTE with the single
\* hour and the single minute of the i-th time.
C2_OneRulePerTime ==
    Succeeded /\ SplitCase(matches) =>
        /\ Len(result.rrules) = Len(matches.times)
        /\ \A i \in 1..Len(matches.times) :
            /\ FieldOf(result.rrules[i], "BYHOUR") = ToString(matches.times[i].hour24)
            /\ FieldOf(result.rrules[i], "BYMINUTE") = ToString(matches.times[i].minute)
        /\ written.family = "times" =>
            matches.times = [i \in 1..Len(written.tokens) |-> Stated(written.tokens[i])]

C2_Witness ==
    /\ pc = "done"
    /\ written.family = "times"
    /\ written.tokens = <<"9:15am", "5:45pm">>
    /\ written.n = -1
    /\ result.rrules = <<"FREQ=DAILY;BYHOUR=9;BYMINUTE=15", "FREQ=DAILY;BYHOUR=17;BYMINUTE=45">>

(***************************************************************************)
(* C3                                                                      *)
(***************************************************************************)
RECURSIVE SumOfCounts(_, _)
SumOfCounts(rrules, i) ==
    IF i > Len(rrules) THEN 0
    ELSE NumberOf(FieldOf(rrules[i], "COUNT")) + SumOfCounts(rrules, i + 1)

\* C3: in the split case with a COUNT c, a success has numTimes rules, the i-th
\* with COUNT floor(c / numTimes), plus one for the first (c mod numTimes) rules,
\* and the COUNT values add up to c, the count that was written.
C3_CountDistribution ==
    Succeeded /\ SplitCase(matches) /\ ~IsNull(matches.count) =>
        LET c == Val(matches.count)
            numTimes == Len(matches.times)
        IN  /\ c >= numTimes
            /\ Len(result.rrules) = numTimes
            /\ \A i \in 1..numTimes :
                FieldOf(result.rrules[i], "COUNT")
                    = ToString((c \div numTimes) + (IF i <= c % numTimes THEN 1 ELSE 0))
            /\ SumOfCounts(result.rrules, 1) = c
            /\ written.family = "times" /\ written.n >= 0 => c = written.n
            /\ written.family = "times" /\ written.n = -2 => c = 7

C3_Witness ==
    /\ pc = "done"
    /\ written.family = "times"
    /\ written.tokens = <<"9:15am", "5:45pm", "9am">>
    /\ written.n = 10
    /\ result.rrules = <<"FREQ=DAILY;COUNT=4;BYHOUR=9;BYMINUTE=15",
                         "FREQ=DAILY;COUNT=3;BYHOUR=17;BYMINUTE=45",
                         "FREQ=DAILY;COUNT=3;BYHOUR=9;BYMINUTE=0">>

(***************************************************************************)
(* C4                                                                      *)
(***************************************************************************)
AmbiguousCase ==
    /\ pc = "done"
    /\ SplitCase(matches)
    /\ ~IsNull(matches.count)
    /\ Val(matches.count) < Len(matches.times)

ReportsTimes(msg, numTimes) ==
    /\ Contains(msg, ToString(numTimes) \o " different times")
    /\ Contains(msg, "\"for " \o ToString(numTimes) \o " occurrences\" or more")

OutOfRangeTokens == {"25:00", "9:99am", "25am", "13 pm", "24:00", "0am"}
NegativeTokens == {"-5:00", "-5pm", "-5:30pm"}

InvalidTimeResult ==
    /\ result.kind = "unsupported"
    /\ StartsWith(result.unsupported, "Invalid time value")

\* C5: an input with a time-shaped token whose hour or minute is out of range is
\* answered with unsupported and an "Invalid time value" message, wherever the
\* token stands in the text.
C5_InvalidTimeReported ==
    pc = "done" /\ written.family = "shaped" /\ written.tokens[1] \in OutOfRangeTokens
        => InvalidTimeResult

(***************************************************************************)
(* C6                                                                      *)
(***************************************************************************)
\* C6: an input with a time token that has a minus sign on the hour is answered
\* with unsupported and an "Invalid time value" message, never with an RRULE.
C6_NegativeHourRejected ==
    pc = "done" /\ written.family = "shaped" /\ written.tokens[1] \in NegativeTokens
        => InvalidTimeResult

(***************************************************************************)
(* C7                                                                      *)
(***************************************************************************)
IsNumeral(str, lo, hi) == \E k \in lo..hi : ToString(k) = str \/ "0" \o ToString(k) = str

\* ":MM" with MM in 00..59
IsMinutes(part) == Len(part) = 3 /\ Ch(part, 1) = ":" /\ IsNumeral(Sub(part, 2, 3), 0, 59)

ValueOf(str) == CHOOSE k \in 0..59 : ToString(k) = str \/ "0" \o ToString(k) = str

\* the ParsedTime the stated grammar gives a token, Null for a token outside it
GrammarTime(tok) ==
    LET sign == tok[1]
        hour == tok[2]
        mins == tok[3]
        suffix == tok[4]
        minute == IF mins = "" THEN 0 ELSE ValueOf(Sub(mins, 2, 3))
    IN  IF hour = "midnight" THEN Some(Time(0, 0))
        ELSE IF hour = "noon" THEN Some(Time(12, 0))
        ELSE IF sign = "" /\ suffix = "" /\ IsNumeral(hour, 0, 23) /\ IsMinutes(mins)
        THEN Some(Time(ValueOf(hour), minute))
        ELSE IF sign = "" /\ suffix # "" /\ IsNumeral(hour, 1, 12) /\ (mins = "" \/ IsMinutes(mins))
        THEN Some(Time(IF suffix = "pm" /\ ValueOf(hour) # 12 THEN ValueOf(hour) + 12
                       ELSE IF suffix = "am" /\ ValueOf(hour) = 12 THEN 0
                       ELSE ValueOf(hour),
                       minute))
        ELSE Null

\* C7: parseTime returns the time of day of a token of the grammar (midnight,
\* noon, H:MM with H in 0..23, H[:MM](am|pm) with H in 1..12, MM in 00..59) and
\* null for every other token of digits, ":", "-" and am/pm.
C7_ParseTimeGrammar ==
    pc # "start" => result = GrammarTime(written.tokens)

(***************************************************************************)
(* C8                                                                      *)
(***************************************************************************)
Blanks == {" ", "\t", "\n", "\r", "\f"}
Separators == {",", ";"}

NoRunOf(chars, s) == \A i \in 1..(Len(s) - 1) : ~(Ch(s, i) \in chars /\ Ch(s, i + 1) \in chars)

\* C8: normalizeInput of a normalized string is that string; a normalized string
\* neither begins nor ends with whitespace, has no two whitespace characters in
\* a row, no two of "," and ";" in a row, and no ";".
C8_NormalizeIdempotent ==
    /\ pc # "start" =>
        /\ normalizedText # "" =>
            Ch(normalizedText, 1) \notin Blanks
            /\ Ch(normalizedText, Len(normalizedText)) \notin Blanks
        /\ NoRunOf(Blanks, normalizedText)
        /\ NoRunOf(Separators, normalizedText)
        /\ \A i \in 1..Len(normalizedText) : Ch(normalizedText, i) # ";"
    /\ pc = "done" => result = normalizedText

C8_Witness ==
    /\ pc = "done"
    /\ input = "\tA;,"
    /\ normalizedText = "a,"
    /\ result = "a,"

(***************************************************************************)
(* C9                                                                      *)
(***************************************************************************)
\* the code of a day name, "" for any other word
DayCode(word) ==
    CASE word \in {"monday", "mon"} -> "MO"
      [] word \in {"tuesday", "tue", "tues"} -> "TU"
      [] word \in {"wednesday", "wed"} -> "WE"
      [] word \in {"thursday", "thu", "thur", "thurs"} -> "TH"
      [] word \in {"friday", "fri"} -> "FR"
      [] word \in {"saturday", "sat"} -> "SA"
      [] word \in {"sunday", "sun"} -> "SU"
      [] OTHER -> ""

RECURSIVE MentionedFrom(_, _, _)
MentionedFrom(words, i, codes) ==
    IF i > Len(words) THEN codes
    ELSE MentionedFrom(words, i + 1,
            IF DayCode(words[i]) = "" \/ (\E k \in 1..Len(codes) : codes[k] = DayCode(words[i]))
            THEN codes ELSE Append(codes, DayCode(words[i])))

\* the codes of the days the text names, each once, in the order of their first
\* mention, and the same codes from monday to sunday
Mentioned == MentionedFrom(Split(normalizedText, " "), 1, <<>>)
IsDayCode(code) == \E k \in 1..Len(Mentioned) : Mentioned[k] = code
CalendarOrder == SelectSeq(<<"MO", "TU", "WE", "TH", "FR", "SA", "SU">>, IsDayCode)

\* text that names days one by one, not by "weekday(s)" or "weekend(s)"
NamesDays ==
    /\ pc \in {"conflicts", "duration", "emit", "done"}
    /\ matches # NoMatches
    /\ \A w \in {"weekday", "weekdays", "weekend", "weekends"} :
        \A i \in 1..Len(Split(normalizedText, " ")) : Split(normalizedText, " ")[i] # w

\* BYDAY of a success is the weekdays list when there are no nth weekdays
ByDayIsWeekdays ==
    Succeeded /\ matches.nthWeekdays = <<>> /\ matches.weekdays # <<>> =>
        \A i \in 1..Len(result.rrules) :
            FieldOf(result.rrules[i], "BYDAY") = join(matches.weekdays, ",")

Rank(code) ==
    LET ordinal == Sub(code, 1, Len(code) - 2)
    IN  IF ordinal = "-1" THEN 6 ELSE NumberOf(ordinal)

\* C10: the nth-weekday list has no code twice, its ordinals ascend and every -1
\* entry stands after every entry with a positive ordinal; BYDAY of a success is
\* that list.
C10_NthWeekdayOrder ==
    LET nth == matches.nthWeekdays
    IN  /\ \A i, j \in 1..Len(nth) : i < j => nth[i] # nth[j] /\ Rank(nth[i]) <= Rank(nth[j])
        /\ \A i \in 1..Len(nth) : Rank(nth[i]) \in 1..6
        /\ Succeeded /\ nth # <<>> =>
            \A i \in 1..Len(result.rrules) : FieldOf(result.rrules[i], "BYDAY") = join(nth, ",")

C10_Witness ==
    /\ pc = "done"
    /\ input = "last friday and first and third monday"
    /\ matches.nthWeekdays = <<"1MO", "3MO", "-1FR", "-1MO">>
    /\ FieldOf(result.rrules[1], "BYDAY") = "1MO,3MO,-1FR,-1MO"

(***************************************************************************)
(* C11                                                                     *)
(***************************************************************************)
KeyOrder ==
    <<"FREQ", "INTERVAL", "COUNT", "BYMONTH", "BYDAY", "BYMONTHDAY", "BYHOUR", "BYMINUTE">>

\* the key of a part KEY=VALUE, "" when the part has no "=" or nothing after it
KeyOf(part) ==
    LET at == {i \in 1..Len(part) : Ch(part, i) = "="}
    IN  IF at = {} \/ Ch(part, Len(part)) = "=" THEN ""
        ELSE Sub(part, 1, (CHOOSE i \in at : \A j \in at : i <= j) - 1)

\* the place of a key in the fixed order, 0 for a key that is not in it
PlaceOf(key) ==
    IF \E k \in 1..Len(KeyOrder) : KeyOrder[k] = key
    THEN CHOOSE k \in 1..Len(KeyOrder) : KeyOrder[k] = key
    ELSE 0

Built == pc = "done" /\ ~result.threw

\* C11: buildRRule throws exactly when no frequency is set; the string it returns
\* is a ";"-joined list of KEY=VALUE parts, the first being FREQ with the
\* frequency, the keys going strictly forward in the order FREQ, INTERVAL, COUNT,
\* BYMONTH, BYDAY, BYMONTHDAY, BYHOUR, BYMINUTE (so none comes twice); INTERVAL is
\* there exactly when interval > 1; BYDAY is the nthWeekdays when there are any,
\* else the weekdays when there are any, else absent.
C11_RuleShape ==
    pc = "done" =>
        /\ result.threw <=> matches.frequency = ""
        /\ ~result.threw =>
            LET parts == Split(result.rrule, ";")
                places == [i \in 1..Len(parts) |-> PlaceOf(KeyOf(parts[i]))]
            IN  /\ parts[1] = "FREQ=" \o matches.frequency
                /\ \A i \in 1..Len(parts) : places[i] >= 1
                /\ \A i \in 1..(Len(parts) - 1) : places[i] < places[i + 1]
                /\ (\E i \in 1..Len(parts) : places[i] = 2)
                    <=> (~IsNull(matches.interval) /\ Val(matches.interval) > 1)
                /\ FieldOf(result.rrule, "BYDAY") =
                    (IF matches.nthWeekdays # <<>> THEN join(matches.nthWeekdays, ",")
                     ELSE join(matches.weekdays, ","))

C11_Witness ==
    /\ pc = "done"
    /\ matches.frequency = "WEEKLY"
    /\ matches.interval = Some(2)
    /\ matches.count = Some(5)
    /\ matches.nthWeekdays = <<"1MO", "-1FR">>
    /\ matches.weekdays = <<"MO", "FR">>
    /\ result.rrule = "FREQ=WEEKLY;INTERVAL=2;COUNT=5;BYMONTH=1,6;BYDAY=1MO,-1FR;BYMONTHDAY=1,15;BYHOUR=17,9;BYMINUTE=15,45"

(***************************************************************************)
(* C12                                                                     *)
(***************************************************************************)
\* the numbers of a part like BYHOUR=9,10,11 of an RRULE, none when it has no such part
NumbersOf(rrule, key) ==
    IF FieldOf(rrule, key) = "" THEN <<>>
    ELSE LET vs == Split(FieldOf(rrule, key), ",")
         IN  [i \in 1..Len(vs) |-> parseInt(vs[i])]

\* C12: in a success every value listed under BYHOUR is an hour of the day, 0..23.
C12_ByHourInRange ==
    Succeeded =>
        \A i \in 1..Len(result.rrules) :
            \A k \in 1..Len(NumbersOf(result.rrules[i], "BYHOUR")) :
                NumbersOf(result.rrules[i], "BYHOUR")[k] \in 0..23

(***************************************************************************)
(* C13                                                                     *)
(***************************************************************************)
\* C13: every COUNT of an RRULE of a success is a number >= 1; in the split case
\* with a count set every rule carries such a COUNT; a written count of 0 and a
\* duration that converts to 0 occurrences leave the rules without COUNT (or the
\* input is rejected).
C13_CountPositive ==
    Succeeded =>
        /\ \A i \in 1..Len(result.rrules) :
            \/ ~Contains(result.rrules[i], "COUNT=")
            \/ parseInt(FieldOf(result.rrules[i], "COUNT")) >= 1
        /\ SplitCase(matches) /\ ~IsNull(matches.count) =>
            \A i \in 1..Len(result.rrules) : Contains(result.rrules[i], ";COUNT=")
        /\ (written.family = "times" /\ written.n = 0) \/ input = "monthly for 1 week" =>
            \A i \in 1..Len(result.rrules) : ~Contains(result.rrules[i], "COUNT=")

C13_Witness ==
    /\ pc = "done"
    /\ written.family = "times"
    /\ written.tokens = <<"9:15am", "9am">>
    /\ written.n = 0
    /\ matches.count = Some(0)
    /\ result.rrules = <<"FREQ=DAILY;BYHOUR=9;BYMINUTE=0,15">>

(***************************************************************************)
(* C14                                                                     *)
(***************************************************************************)
\* what the schedule phrase of a duration input states: <<phrase, frequency,
\* interval, weekdays>>
StatedSchedule(p) ==
    ScheduleTable[CHOOSE b \in 1..Len(ScheduleTable) : ScheduleTable[b][1] = p.tokens[1]]

\* floor(N x multiplier / interval), times the weekdays of a weekly schedule with
\* more than one weekday
DurationCount(p) ==
    LET given == StatedSchedule(p)
        multiplier == conversionTable(given[2], p.tokens[2])
        floored == (p.n * multiplier[1]) \div (multiplier[2] * given[3])
    IN  IF given[2] = "WEEKLY" /\ given[4] > 1 THEN floored * given[4] ELSE floored

\* the COUNT of the one rule of the result is c, or absent when c = 0
CountIs(c) ==
    /\ Succeeded
    /\ Len(result.rrules) = 1
    /\ IF c = 0 THEN ~Contains(result.rrules[1], "COUNT=")
       ELSE FieldOf(result.rrules[1], "COUNT") = ToString(c)

TableAsStated ==
    /\ conversionTable("DAILY", "week") = <<7, 1>>
    /\ conversionTable("WEEKLY", "week") = <<1, 1>>
    /\ conversionTable("WEEKLY", "month") = <<4, 1>>
    /\ conversionTable("HOURLY", "day") = <<24, 1>>
    /\ conversionTable("MINUTELY", "day") = <<1440, 1>>

Exactly(rrules) == result = Success(rrules, "")

\* C15: the literal scenarios: each of the five sentences returns exactly its
\* one RRULE, without dtstart, and the empty input returns unsupported.
C15_LiteralScenarios ==
    pc = "done" =>
        /\ input = "daily" => Exactly(<<"FREQ=DAILY">>)
        /\ input = "every monday at 9am" => Exactly(<<"FREQ=WEEKLY;BYDAY=MO;BYHOUR=9;BYMINUTE=0">>)
        /\ input = "first monday of the month" => Exactly(<<"FREQ=MONTHLY;BYDAY=1MO">>)
        /\ input = "last day of the month" => Exactly(<<"FREQ=MONTHLY;BYMONTHDAY=-1">>)
        /\ input = "every 15 minutes between 9am and 5pm" =>
            Exactly(<<"FREQ=MINUTELY;INTERVAL=15;BYHOUR=9,10,11,12,13,14,15,16,17">>)
        /\ input = "" => result.kind = "unsupported" /\ result.rrules = <<>>

C15_Witness ==
    /\ pc = "done"
    /\ input = "every 15 minutes between 9am and 5pm"
    /\ matches.hourRange = Some(<<9, 10, 11, 12, 13, 14, 15, 16, 17>>)
    /\ result.rrules = <<"FREQ=MINUTELY;INTERVAL=15;BYHOUR=9,10,11,12,13,14,15,16,17">>

(***************************************************************************)
(* C16                                                                     *)
(***************************************************************************)
\* the text holds none of the signals a frequency is taken from: no frequency
\* keyword, interval phrase, weekday, nth weekday, month day, month or hour range
NoSignal(text) ==
    /\ matchKeyword(text)[1] = ""
    /\ IsNull(parseInterval(text))
    /\ matchWeekdays(text) = <<>>
    /\ matchNthWeekdays(text) = <<>>
    /\ matchMonthDays(text) = <<>>
    /\ matchMonths(text) = <<>>
    /\ IsNull(matchHourRange(text))

Unrecognized == normalizeInput(input) = "" \/ NoSignal(normalizeInput(input))

CouldNotUnderstand ==
    /\ result.kind = "unsupported"
    /\ result.rrules = <<>>
    /\ StartsWith(result.unsupported, "Could not understand the input")

\* C16 as written: an input that is empty when normalized, or holds no frequency
\* signal, returns unsupported with a "Could not understand the input" message.
C16_AlwaysCouldNotUnderstand ==
    pc = "done" /\ Unrecognized => CouldNotUnderstand

\* C16: an input that is empty when normalized, or holds no frequency signal,
\* returns unsupported: with the "Invalid time value" message when the scan for
\* invalid times finds one, and else with a "Could not understand the input"
\* message.
C16_UnrecognizedRejected ==
    pc = "done" /\ Unrecognized =>
        IF invalidTime(normalizeInput(input)) # ""
        THEN /\ result.kind = "unsupported"
             /\ result.rrules = <<>>
             /\ StartsWith(result.unsupported, "Invalid time value")
        ELSE CouldNotUnderstand

C16_Witness ==
    /\ pc = "done"
    /\ input = "at 9am"
    /\ matches.times = <<Time(9, 0)>>
    /\ Unrecognized
    /\ result = Unsupported(noFrequencyMessage)

(***************************************************************************)
(* C18                                                                     *)
(***************************************************************************)
\* C18: in the split case with a COUNT c below the number of times, the result is
\* a success with c rules, the i-th for the i-th time of the text, each with
\* COUNT=1.
C18_PartialSplit ==
    AmbiguousCase =>
        /\ result.kind = "rrules"
        /\ Len(result.rrules) = Val(matches.count)
        /\ \A i \in 1..Len(result.rrules) :
            /\ FieldOf(result.rrules[i], "COUNT") = "1"
            /\ FieldOf(result.rrules[i], "BYHOUR") = ToString(matches.times[i].hour24)
            /\ FieldOf(result.rrules[i], "BYMINUTE") = ToString(matches.times[i].minute)

(***************************************************************************)
(* C19                                                                     *)
(***************************************************************************)
\* C19: with an hour range, a success is one RRULE whose BYHOUR is the list of
\* the hours of the range and which has no BYMINUTE, whatever times were
\* extracted beside the range.
C19_HourRangeWins ==
    Succeeded /\ ~IsNull(matches.hourRange) =>
        /\ Len(result.rrules) = 1
        /\ FieldOf(result.rrules[1], "BYHOUR") = joinNumbers(Val(matches.hourRange), ",")
        /\ ~Contains(result.rrules[1], "BYMINUTE")

C19_Witness ==
    /\ pc = "done"
    /\ input = "hourly between 9:15am and 5:45pm"
    /\ matches.times = <<Time(9, 15), Time(17, 45)>>
    /\ matches.hourRange = Some(<<9, 10, 11, 12, 13, 14, 15, 16, 17>>)
    /\ result.rrules = <<"FREQ=HOURLY;BYHOUR=9,10,11,12,13,14,15,16,17">>

(***************************************************************************)
(* C20                                                                     *)
(***************************************************************************)
\* the values of xs, each once, in the order in which they first appear
FirstSeen(xs) ==
    LET keep == {i \in 1..Len(xs) : \A j \in 1..(i - 1) : xs[j] # xs[i]}
    IN  [k \in 1..Cardinality(keep) |->
            xs[CHOOSE i \in keep : Cardinality({j \in keep : j < i}) = k - 1]]

\* the numbers of xs, each once, from the least to the greatest
Ascending(xs) ==
    LET S == {xs[i] : i \in 1..Len(xs)}
    IN  [k \in 1..Cardinality(S) |-> CHOOSE x \in S : Cardinality({y \in S : y < x}) = k - 1]

CollapseCase ==
    /\ Succeeded
    /\ matches.times # <<>>
    /\ IsNull(matches.hourRange)
    /\ \/ Cardinality({matches.times[i].hour24 : i \in 1..Len(matches.times)}) <= 1
       \/ Cardinality({matches.times[i].minute : i \in 1..Len(matches.times)}) <= 1

\* C20: with times, no hour range, and at most one distinct hour or at most one
\* distinct minute, a success is one RRULE: its BYHOUR lists the distinct hours in
\* the order of their first appearance (and is left out when all 24 hours are
\* there), its BYMINUTE lists the distinct minutes in ascending order, and its
\* COUNT is the whole count.
C20_SingleRuleCollapse ==
    CollapseCase =>
        LET hours == FirstSeen([i \in 1..Len(matches.times) |-> matches.times[i].hour24])
            minutes == Ascending([i \in 1..Len(matches.times) |-> matches.times[i].minute])
        IN  /\ Len(result.rrules) = 1
            /\ IF Len(hours) = 24 THEN ~Contains(result.rrules[1], "BYHOUR")
               ELSE FieldOf(result.rrules[1], "BYHOUR") = joinNumbers(hours, ",")
            /\ FieldOf(result.rrules[1], "BYMINUTE") = joinNumbers(minutes, ",")
            /\ IF IsNull(matches.count) \/ matches.count = Some(0)
               THEN ~Contains(result.rrules[1], "COUNT=")
               ELSE FieldOf(result.rrules[1], "COUNT") = ToString(Val(matches.count))
            /\ written.family = "times" =>
                matches.times = [i \in 1..Len(written.tokens) |-> Stated(written.tokens[i])]

C20_Witness ==
    /\ pc = "done"
    /\ input = "daily at 5:30pm, 9:30am and 5:30pm for 3 occurrences"
    /\ matches.times = <<Time(17, 30), Time(9, 30), Time(17, 30)>>
    /\ result.rrules = <<"FREQ=DAILY;COUNT=3;BYHOUR=17,9;BYMINUTE=30">>

\* C20 as written: with times, no hour range, and at most one distinct hour or at
\* most one distinct minute, rruled returns one RRULE.
C20_AlwaysOneRule ==
    /\ pc = "done"
    /\ matches.times # <<>>
    /\ IsNull(matches.hourRange)
    /\ ~SplitCase(matches)
    => result.kind = "rrules" /\ Len(result.rrules) = 1

(***************************************************************************)
(* C21                                                                     *)
(***************************************************************************)
\* C21: with an interval above 1 and the frequency HOURLY, rruled returns
\* unsupported as soon as one of the extracted times, at any position, has a
\* minute other than 0.
C21_AnyNonZeroMinuteRejected ==
    /\ pc = "done"
    /\ ~IsNull(matches.interval) /\ Val(matches.interval) > 1
    /\ matches.frequency = "HOURLY"
    /\ \E i \in 1..Len(matches.times) : matches.times[i].minute # 0
    => result.kind = "unsupported"

(***************************************************************************)
(* C22                                                                     *)
(***************************************************************************)
\* the FREQ of every RRULE of the result is one of fs
FreqIn(fs) == \A i \in 1..Len(result.rrules) : FieldOf(result.rrules[i], "FREQ") \in fs

\* C22: when an hour range was extracted and the resolved frequency is neither
\* HOURLY nor MINUTELY, rruled returns unsupported and no RRULE; so every success
\* that carries the BYHOUR of an hour range has FREQ=HOURLY or FREQ=MINUTELY.
C22_HourRangeConflict ==
    /\ pc = "done" /\ ~IsNull(matches.hourRange)
            /\ matches.frequency \notin {"HOURLY", "MINUTELY"}
        => result.kind = "unsupported" /\ result.unsupported # "" /\ result.rrules = <<>>
    /\ Succeeded /\ ~IsNull(matches.hourRange)
        => /\ FreqIn({"HOURLY", "MINUTELY"})
           /\ \A i \in 1..Len(result.rrules) :
                FieldOf(result.rrules[i], "BYHOUR") = joinNumbers(Val(matches.hourRange), ",")

C22_Witness ==
    /\ pc = "done"
    /\ input = "daily between 9am and 5pm"
    /\ matches.frequency = "DAILY"
    /\ matches.hourRange = Some(<<9, 10, 11, 12, 13, 14, 15, 16, 17>>)
    /\ result.kind = "unsupported"
    /\ Contains(result.unsupported, "Current frequency is DAILY.")

(***************************************************************************)
(* C23                                                                     *)
(***************************************************************************)
\* the BYDAY of the RRULE has a code with an ordinal in front, as 1MO or -1FR
HasOrdinalDay(rrule) ==
    LET codes == Split(FieldOf(rrule, "BYDAY"), ",")
    IN  \E k \in 1..Len(codes) :
            codes[k] # "" /\ Ch(codes[k], 1) \in DigitChars \cup {"-"}

\* C23: when the resolved frequency is HOURLY, MINUTELY or DAILY and an
\* nth-weekday code was extracted, rruled returns the unsupported nth-weekday
\* conflict and no RRULE; no success has FREQ HOURLY, MINUTELY or DAILY together
\* with a BYDAY that holds an ordinal-prefixed code.
C23_NthWeekdayConflict ==
    /\ pc = "done" /\ matches.frequency \in {"HOURLY", "MINUTELY", "DAILY"}
            /\ Len(matches.nthWeekdays) > 0
        => /\ result.kind = "unsupported"
           /\ result.rrules = <<>>
           /\ Contains(result.unsupported, "cannot be combined with nth weekday patterns")
    /\ Succeeded
        => \A i \in 1..Len(result.rrules) :
                FieldOf(result.rrules[i], "FREQ") \in {"HOURLY", "MINUTELY", "DAILY"}
                    => ~HasOrdinalDay(result.rrules[i])

C23_Witness ==
    /\ pc = "done"
    /\ input = "hourly on the first monday between 9am and 5pm"
    /\ matches.frequency = "HOURLY"
    /\ matches.nthWeekdays = <<"1MO">>
    /\ result.kind = "unsupported"
    /\ Contains(result.unsupported, "hourly/minutely frequency cannot be combined")

(***************************************************************************)
(* C24                                                                     *)
(***************************************************************************)
\* the frequency a schedule phrase states by its keyword or its unit, "" for none
SaidFrequency(phrase) ==
    CASE phrase = "daily" -> "DAILY"
      [] phrase = "hourly" -> "HOURLY"
      [] phrase = "weekly" -> "WEEKLY"
      [] phrase = "monthly" -> "MONTHLY"
      [] phrase = "every 2 hours" -> "HOURLY"
      [] phrase = "every 15 minutes" -> "MINUTELY"
      [] phrase = "every 3 days" -> "DAILY"
      [] phrase = "every 2 weeks" -> "WEEKLY"
      [] phrase = "every other month" -> "MONTHLY"
      [] OTHER -> ""

\* the frequency before the five adjustments: MONTHLY with nth-weekday codes, else
\* what the schedule phrase says, else WEEKLY with weekdays
BaseFrequency ==
    IF Len(matches.nthWeekdays) > 0 THEN "MONTHLY"
    ELSE IF SaidFrequency(written.tokens[1]) # "" THEN SaidFrequency(written.tokens[1])
    ELSE IF Len(matches.weekdays) > 0 THEN "WEEKLY"
    ELSE ""

\* what the five adjustments, each overwriting the one before, come to
Cascade(base, hasRange, hasWeekdays, hasNth, hasMonths) ==
    IF hasRange /\ hasWeekdays THEN "HOURLY"
    ELSE IF hasMonths /\ (hasNth \/ hasWeekdays) THEN "YEARLY"
    ELSE IF base = "" /\ hasRange THEN "HOURLY"
    ELSE IF base = "" /\ hasMonths THEN "YEARLY"
    ELSE base

PatternsMatched == pc \in {"conflicts", "duration", "emit"} \/ (pc = "done" /\ matches # NoMatches)

\* C24: the resolved frequency is the outcome of the five adjustments applied in
\* their order, each overwriting the one before; so with an hour range and a
\* weekday it is HOURLY, whatever keyword, interval, nth-weekday or month is there.
C24_OverrideCascade ==
    PatternsMatched =>
        /\ matches.frequency =
                Cascade(BaseFrequency, ~IsNull(matches.hourRange), Len(matches.weekdays) > 0,
                        Len(matches.nthWeekdays) > 0, Len(matches.months) > 0)
        /\ ~IsNull(matches.hourRange) /\ Len(matches.weekdays) > 0
                => matches.frequency = "HOURLY"

C24_Witness ==
    /\ pc = "done"
    /\ input = "weekly on monday in january between 9am and 5pm"
    /\ matches.weekdays = <<"MO">> /\ matches.months = <<1>>
    /\ matches.frequency = "HOURLY"
    /\ result.rrules = <<"FREQ=HOURLY;BYMONTH=1;BYDAY=MO;BYHOUR=9,10,11,12,13,14,15,16,17">>

(***************************************************************************)
(* C25                                                                     *)
(***************************************************************************)
\* the hour an end of the range stands for: 12am is 0, 12pm is 12, Npm is N + 12
EndHour(numeral, period) ==
    LET h == NumberOf(numeral)
    IN  IF period = "am" /\ h = 12 THEN 0
        ELSE IF period = "pm" /\ h # 12 THEN h + 12
        ELSE h

\* the list from, from + 1, ..., to; empty when from is above to
Upto(from, to) == [i \in 1..(to - from + 1) |-> from + i - 1]

\* C25: for "between S and E" with ends s and e on the 24-hour clock,
\* matchHourRange returns s, s+1, ..., e when s <= e, and s, ..., 23 followed by
\* 0, ..., e when s > e; the list is never empty and no hour is in it twice.
C25_HourRangeEnumeration ==
    pc = "done" /\ written.family = "range" =>
        LET s == EndHour(written.tokens[1], written.tokens[3])
            e == EndHour(written.tokens[4], written.tokens[5])
            hours == Val(result)
        IN  /\ ~IsNull(result)
            /\ hours = IF s <= e THEN Upto(s, e) ELSE Upto(s, 23) \o Upto(0, e)
            /\ Len(hours) > 0
            /\ \A i, j \in 1..Len(hours) : hours[i] = hours[j] => i = j

C25_Witness ==
    /\ pc = "done"
    /\ input = "every hour between 11pm and 2am"
    /\ result = Some(<<23, 0, 1, 2>>)

(***************************************************************************)
(* C26                                                                     *)
(***************************************************************************)
\* the times of day an RRULE implies: every BYHOUR value with every BYMINUTE value
Implied(rrule) ==
    LET hs == NumbersOf(rrule, "BYHOUR")
        ms == NumbersOf(rrule, "BYMINUTE")
    IN  {<<hs[i], ms[j]>> : i \in 1..Len(hs), j \in 1..Len(ms)}

ImpliedByAll == UNION {Implied(result.rrules[i]) : i \in 1..Len(result.rrules)}

\* the times of day that were extracted from the text
Extracted == {<<matches.times[i].hour24, matches.times[i].minute>> : i \in 1..Len(matches.times)}

TimesCase == Succeeded /\ IsNull(matches.hourRange) /\ Len(matches.times) > 0

\* one RRULE for times that name every hour of the day
AllHoursCase ==
    /\ ~SplitCase(matches)
    /\ Cardinality({matches.times[i].hour24 : i \in 1..Len(matches.times)}) = 24

\* C26 as written: in a success with times and no hour range, the RRULEs imply
\* exactly the extracted times of day, none more and none less.
C26_ImpliedTimes == TimesCase => ImpliedByAll = Extracted

\* C26: in a success with times and no hour range, the RRULEs imply exactly the
\* extracted times of day, except for one RRULE made from times that name all 24
\* hours: it has no BYHOUR, and its BYMINUTE holds the minutes of the times.
C26_ImpliedTimesUnlessAllHours ==
    TimesCase =>
        IF AllHoursCase
        THEN /\ Len(result.rrules) = 1
             /\ ~Contains(result.rrules[1], "BYHOUR")
             /\ {NumbersOf(result.rrules[1], "BYMINUTE")[j] :
                    j \in 1..Len(NumbersOf(result.rrules[1], "BYMINUTE"))}
                = {matches.times[i].minute : i \in 1..Len(matches.times)}
        ELSE ImpliedByAll = Extracted

C26_Witness ==
    /\ pc = "done"
    /\ input = "daily at 9:15am and 5:45pm and 9am"
    /\ Extracted = {<<9, 15>>, <<17, 45>>, <<9, 0>>}
    /\ Len(result.rrules) = 3
    /\ ImpliedByAll = Extracted

(***************************************************************************)
(* C27                                                                     *)
(***************************************************************************)
\* the row of PhraseTable of a schedule phrase: <<phrase, unit, N>>
PhraseRow(phrase) ==
    PhraseTable[CHOOSE i \in 1..Len(PhraseTable) : PhraseTable[i][1] = phrase]

\* the frequency that goes with a unit of time
FrequencyOfUnit(unit) ==
    CASE unit = "minute" -> "MINUTELY"
      [] unit = "hour" -> "HOURLY"
      [] unit = "day" -> "DAILY"
      [] unit = "week" -> "WEEKLY"
      [] unit = "month" -> "MONTHLY"
      [] unit = "year" -> "YEARLY"

\* C27: an RRULE that carries the INTERVAL=N of an interval phrase
\* "every N <unit>" has the frequency of that unit.
C27_IntervalKeepsUnit ==
    Succeeded /\ written.family = "phrase" /\ PhraseRow(written.tokens[1])[2] # "" =>
        \A i \in 1..Len(result.rrules) :
            FieldOf(result.rrules[i], "INTERVAL") = ToString(PhraseRow(written.tokens[1])[3])
                => FieldOf(result.rrules[i], "FREQ")
                        = FrequencyOfUnit(PhraseRow(written.tokens[1])[2])

(***************************************************************************)
(* C28                                                                     *)
(***************************************************************************)
\* the sentence without its start date, and what rruled returns for it
WithoutStart == PhraseText([written.tokens EXCEPT ![5] = ""])

StartCase ==
    /\ pc = "done"
    /\ written.family = "phrase"
    /\ written.tokens[5] # ""
    /\ rruled(WithoutStart).kind = "rrules"

\* C28: when X converts, X followed by "starting <date>" converts to the same
\* rrules as X alone, with dtstart the date as YYYYMMDD.
C28_StartDateOnlyAddsDtstart ==
    StartCase =>
        /\ result.kind = "rrules"
        /\ result.rrules = rruled(WithoutStart).rrules
        /\ result.dtstart = "20250115"

\* rruled, the function, returns what the steps of rruled reach
RruledAgrees == pc = "done" /\ written.family = "phrase" => result = rruled(input)

(***************************************************************************)
(* C29                                                                     *)
(***************************************************************************)
\* the ordinal a position word stands for, "" for any other word
PositionOf(word) ==
    CASE word = "first" -> "1"
      [] word = "second" -> "2"
      [] word = "third" -> "3"
      [] word = "fourth" -> "4"
      [] word = "fifth" -> "5"
      [] word = "last" -> "-1"
      [] OTHER -> ""

\* the code of a day written in full, "" for any other word
FullDayCode(word) ==
    CASE word = "monday" -> "MO"
      [] word = "tuesday" -> "TU"
      [] word = "wednesday" -> "WE"
      [] word = "thursday" -> "TH"
      [] word = "friday" -> "FR"
      [] word = "saturday" -> "SA"
      [] word = "sunday" -> "SU"
      [] OTHER -> ""

\* every position word of the sentence has a day name right after it
PositionsAdjacent(words) ==
    \A i \in 1..Len(words) :
        PositionOf(words[i]) # "" => i < Len(words) /\ FullDayCode(words[i + 1]) # ""

\* the codes of the pairs (position, day) written next to each other
AdjacentPairs(words) ==
    {PositionOf(words[i]) \o FullDayCode(words[i + 1]) :
        i \in {j \in 1..(Len(words) - 1) :
                PositionOf(words[j]) # "" /\ FullDayCode(words[j + 1]) # ""}}

\* C29: when every position word is immediately followed by a day name, the
\* nth-weekday codes are exactly those of the adjacent (position, day) pairs.
C29_OnlyWrittenPairs ==
    PatternsMatched /\ written.family = "words" /\ PositionsAdjacent(written.tokens) =>
        {matches.nthWeekdays[k] : k \in 1..Len(matches.nthWeekdays)}
            = AdjacentPairs(written.tokens)

(***************************************************************************)
(* C30                                                                     *)
(***************************************************************************)
\* C30: in the MatchResult of matchPatterns, nth-weekday codes come with
\* weekdays and with a frequency that is MONTHLY, or YEARLY with months, or
\* HOURLY with an hour range; so rruled never returns the conflict message of
\* DAILY with nth-weekday codes.
C30_NthWeekdayFrequency ==
    /\ PatternsMatched /\ Len(matches.nthWeekdays) > 0 =>
        /\ Len(matches.weekdays) > 0
        /\ matches.frequency \in {"MONTHLY", "YEARLY", "HOURLY"}
        /\ matches.frequency = "YEARLY" => Len(matches.months) > 0
        /\ matches.frequency = "HOURLY" => ~IsNull(matches.hourRange)
    /\ pc = "done" =>
        ~Contains(result.unsupported, "daily frequency cannot be combined with nth weekday")

C30_Witness ==
    /\ pc = "done"
    /\ input = "every 15 minutes on the first monday"
    /\ matches.nthWeekdays = <<"1MO">>
    /\ matches.weekdays = <<"MO">>
    /\ matches.frequency = "MONTHLY"
    /\ result.rrules = <<"FREQ=MONTHLY;INTERVAL=15;BYDAY=1MO">>

====
